---- MODULE Spec2Model ----
(***************************************************************************)
(* A model of the concurrency core of hr_little_api: the Robot dispatcher, *)
(* the registry of ActionHandles, ActionHandle itself, the keep-alive loop *)
(* and the reader task of TcpTransport.  Time is counted in tenths of a    *)
(* second, so that the float durations of the source (9.0 s, 2.3 s per     *)
(* step, ...) are integers.                                                *)
(***************************************************************************)
EXTENDS Integers, Sequences, FiniteSets, TLC

(* ---------------------------------------------------------------------- *)
(* Bounds of the model                                                     *)
(* ---------------------------------------------------------------------- *)
\* number of ActionHandles that are ever created (the first one is connect's)
MaxHandles == 2
\* the same where dispatches overlap and Robot.wait is given several handles
MaxWaited == 3
\* number of envelopes the device emits beyond the echoes of the requests:
\* telemetry, stray triggers and repetitions of a trigger it has echoed
MaxNoise == 1
\* number of direct done() calls made by the holders of handles
MaxDirect == 1
\* the clock advances in steps of TickLen tenths of a second, up to MaxTime
TickLen == 100
MaxTime == 100
\* number of messages each thread sends where TcpTransport.send is followed
\* step by step
MaxSends == 1

\* the items the device writes on the inbound stream
MaxWrites == 2

\* the recv calls that return
MaxReads == 3

\* the longest of the short bodies json_length is called with
MaxShortLen == 60

\* how far on both sides of the limit of 4090 json_length is called
LimitMargin == 40

\* the longest text handed to activity_cmd
MaxRun == 20

\* how far beyond the valid step counts the walks of the callers go
MaxBeyond == 10

(* ---------------------------------------------------------------------- *)
(* Program constants                                                       *)
(* ---------------------------------------------------------------------- *)
\* Robot._keep_alive_secs = 9.0, in tenths of a second
KeepAliveSecs == 90

\* 1. / read_rate_hz with the default read_rate_hz = 0.05, in tenths of a
\* second
PollSecs == 200

\* "the robot sends two triggers back": the triggers of one "<TE=id>" request
TriggersPerRequest == 2

\* the threads that call the API: "main" connects, "user" issues the actions
Callers == {"main", "user"}

\* the threads that call TcpTransport.send: connect and the dispatches on the
\* callers' threads, the keep-alive task and the telemetry poll task
Writers == Callers \cup {"keep_alive", "poll"}

\* WalkCommandBuilder.__STEP_TIMES, in tenths of a second
STEP_TIMES ==
    [forward |-> 23, backward |-> 24, left |-> 11, right |-> 11]

\* WalkCommandBuilder.__COMMANDS without the step count
WALK_CODES ==
    [forward |-> "W2", backward |-> "WB", left |-> "WL", right |-> "WR"]

\* the operations of Robot that dispatch an action
TriggerOps == {"say", "animate", "do"}
WalkOps == {"walk_forward", "walk_backward", "walk_left", "walk_right"}

\* the direction a walk operation hands to WalkCommandBuilder
WalkDirection(op) ==
    CASE op = "walk_forward" -> "forward"
      [] op = "walk_backward" -> "backward"
      [] op = "walk_left" -> "left"
      [] op = "walk_right" -> "right"

\* the inputs the callers draw from: texts, animations, command lists, steps
SayTexts == {"hi"}
Animations == {"eye_lid_open"}
DoCommands == {"<MO=HT,0.0,0.5>hello"}
StepsIn == {2}

(* ---------------------------------------------------------------------- *)
(* Pure functions                                                          *)
(* ---------------------------------------------------------------------- *)
StartsWith(s, p) == Len(s) >= Len(p) /\ SubSeq(s, 1, Len(p)) = p

RECURSIVE ZFill(_, _)
\* str.zfill(width)
ZFill(s, width) == IF Len(s) >= width THEN s ELSE ZFill("0" \o s, width)

\* str(uuid.uuid1()).replace('-', ''): 32 hexadecimal digits, the time field
\* first; the n-th call of the process gets the n-th timestamp
UuidHex(n) == ZFill(ToString(n), 8) \o "b2f011e9" \o "8a1c" \o "0242ac130003"

\* an id without the "cb." in front
generate_id_bare(n) == SubSeq(UuidHex(n), 1, Len(UuidHex(n)) - 10)

\* json_api.generate_id
generate_id(n) == "cb." \o SubSeq(UuidHex(n), 1, Len(UuidHex(n)) - 10)

\* CallbackCommandBuilder.build for CallbackType.end
callback_end(id) == "<" \o "TE" \o "=" \o id \o ">"

\* WaitCommandBuilder.build for WaitType.wait_for_motors_and_speaking
wait_for_motors_and_speaking == "<PA>"

\* WalkCommandBuilder.duration
WalkDuration(dir, steps) == STEP_TIMES[dir] * steps

\* WalkCommandBuilder.build
WalkBuild(dir, steps) ==
    "<WK=" \o WALK_CODES[dir] \o "," \o
    ToString(IF steps = 1 THEN 0 ELSE steps) \o ">"

\* functional.eye_lid_open and the other entries of Robot.__animation_map
AnimationBuild(animation) ==
    CASE animation = "eye_lid_open" -> "<MO=EL,0.0,0.5>"

\* a json_length that accepts a body of 4091 characters
JsonLengthRaisesLate(length) == length > 4091

\* json_api.json_length raises ValueError for a body of this length
JsonLengthRaises(length) == length > 4090

\* what json_api.json_length returns for a body of this length
JsonLengthOf(length) == ZFill(ToString(length), 6)

\* json_api.json_length, for the bodies it does not raise on
json_length(msg_body) == JsonLengthOf(Len(msg_body))

\* json_api.voltage_cmd
voltage_cmd ==
    LET msg_body == "{\"cmd\":\"voltage\"}"
    IN  json_length(msg_body) \o msg_body

\* the text json_api.activity_cmd puts before and after cmd
ActivityText ==
    <<"{\"cmd\":\"activity.recieved\",\"data\":{\"output\":\"", "\"}}">>

\* json_api.activity_cmd
activity_cmd(cmd) ==
    LET msg_body == ActivityText[1] \o cmd \o ActivityText[2]
    IN  json_length(msg_body) \o msg_body

\* a dispatcher that appends the trigger request alone to every command
TriggerCommandBare(op, fragment, id) == fragment \o callback_end(id)

\* the text Robot.say, Robot.animate and Robot.do hand to activity_cmd
TriggerCommand(op, fragment, id) ==
    IF op = "say"
    THEN fragment \o callback_end(id)
    ELSE fragment \o " " \o wait_for_motors_and_speaking \o callback_end(id)

\* a dispatcher that sends the command before it registers the handle
TriggerStepsSendFirst == <<"send", "register", "wait">>

\* The order of the steps of a dispatch with trigger-driven completion, after
\* _set_action_start and the creation of the handle.
TriggerSteps == <<"register", "send", "wait">>

\* a walk that registers its handle as say, animate and do register theirs
WalkStepsRegistered == <<"register", "send", "timer", "wait">>

\* The order of the steps of a dispatch with timeout-driven completion, after
\* _set_action_start and the creation of the handle.
WalkSteps == <<"send", "timer", "wait">>

DispatchSteps(op) == IF op \in TriggerOps THEN TriggerSteps ELSE WalkSteps

(* ---------------------------------------------------------------------- *)
(* State                                                                   *)
(* ---------------------------------------------------------------------- *)
VARIABLES
    now,                    \* time.time(), in tenths of a second
    version,                \* Robot.version
    voltage,                \* Robot.voltage: <<>> is NaN, <<u, t>> is u.t
    is_connected,           \* Robot.is_connected
    is_running,             \* Robot._is_running
    action_handles,         \* Robot._action_handles: id -> <<count, handle>>
    is_action_active,       \* Robot._is_action_active
    last_cmd_time,          \* Robot._last_cmd_time
    sock,                   \* TcpTransport._sock: "new", "open" or "closed"
    is_read_thread_running, \* TcpTransport._is_read_thread_running
    handles,                \* the ActionHandle objects, in creation order
    timers,                 \* ActionHandle.timer_ of each handle
    pc,                     \* where each caller thread is
    call,                   \* the frame of the call each caller is in
    connect_result,         \* what Robot.connect returned: "none" before
    rpc,                    \* where the reader task is
    rcur,                   \* the locals of the reader task
    kpc,                    \* where the keep-alive task is
    klocal,                 \* the locals of the keep-alive task
    wire,                   \* the last message written to the socket
    device,                 \* what the device has emitted on its own
    hist,                   \* per handle, what has happened to it
    lock,                   \* TcpTransport._lock: the thread that holds it
    tx,                     \* where each thread is inside TcpTransport.send
    stream,                 \* the chunks sendall has written, in order
    ppc,                    \* where the telemetry poll task is
    pwake,                  \* when the wait of the telemetry poll task ends
    read_event,             \* Robot._read_event is set
    keep_alive_event,       \* Robot._keep_alive_event is set
    disconnect_result,      \* "none", then "called", then "returned"
    abandoned,              \* the handles pending when disconnect returned
    read_error_logged,      \* the reader task has logged a read error
    inbound,                \* what the device has written and recv has not
                            \* returned yet, as a sequence of items
    rbuf,                   \* msg of Robot._data_received_cb
    rprev,                  \* prev_index of Robot._data_received_cb
    rread,                  \* what the read in progress was made of
    delivered,              \* the texts whose JSON went to _update_state
    written,                \* the bodies the device has written, in order
    decode_errors,          \* the decode errors Robot has logged
    nreads,                 \* the recv calls that have returned
    made                    \* the last call of a command constructor

\* the state of TcpTransport.send, step by step
sendVars == <<lock, tx, stream>>

\* the state of the telemetry poll task, of Robot.disconnect and of the log
closeVars == <<ppc, pwake, read_event, keep_alive_event, disconnect_result,
               abandoned, read_error_logged>>

\* the inbound byte stream and the locals of Robot._data_received_cb
decodeVars == <<inbound, rbuf, rprev, rread, delivered, written,
                decode_errors, nreads>>

\* the variables the dispatcher, reader, timer and keep-alive steps leave alone
extVars == <<sendVars, closeVars, decodeVars, made>>

\* the variables of the dispatcher, reader, timer and keep-alive steps
coreVars == <<now, version, voltage, is_connected, is_running, action_handles,
              is_action_active, last_cmd_time, sock, is_read_thread_running,
              handles, timers, pc, call, connect_result, rpc, rcur, kpc,
              klocal, wire, device, hist>>

vars == <<coreVars, extVars>>

robotVars == <<version, voltage, is_connected, is_running>>
busyVars == <<is_action_active, last_cmd_time>>
transportVars == <<sock, is_read_thread_running>>
readerVars == <<rpc, rcur>>
keepAliveVars == <<kpc, klocal>>
callerVars == <<pc, call, connect_result>>

None == <<>>
EmptyMap == [id \in {} |-> <<0, 0>>]
HandleIds == 1 .. Len(handles)

\* the frame of a caller that is not inside a call
NoCall ==
    [op |-> "", fragment |-> "", block |-> FALSE, h |-> 0, args |-> <<>>,
     i |-> 0, in_connect |-> FALSE]

NoReader == [h |-> 0, i |-> 0, g |-> 0]

\* no command constructor has been called yet
NoCommand ==
    [op |-> "", length |-> 0, prefix |-> "", bytes |-> 0, raised |-> FALSE]

\* no read has been handed to Robot._data_received_cb yet
NoRead == [well |-> FALSE, bodies |-> <<>>, base |-> 0]
NoKeepAlive == [secs |-> 0, wake |-> 0]

\* The history of a handle that has just been created: the id the device has
\* been asked to echo, the matching triggers the reader has processed, the
\* done() calls made by the registry, by the timer and by the holder, and the
\* calls of the caller's done_cb and of _set_action_done.
NoHist ==
    [te |-> None, trig |-> 0, reg_done |-> 0, timer_done |-> 0,
     direct_done |-> 0, cb_calls |-> 0, idle_calls |-> 0]

Init ==
    /\ now = 0
    /\ version = ""
    /\ voltage = None
    /\ is_connected = FALSE
    /\ is_running = FALSE
    /\ action_handles = EmptyMap
    /\ is_action_active = FALSE
    /\ last_cmd_time = 0
    /\ sock = "new"
    /\ is_read_thread_running = FALSE
    /\ handles = <<>>
    /\ timers = <<>>
    /\ pc = [c \in Callers |-> "idle"]
    /\ call = [c \in Callers |-> NoCall]
    /\ connect_result = "none"
    /\ rpc = "off"
    /\ rcur = NoReader
    /\ kpc = "off"
    /\ klocal = NoKeepAlive
    /\ wire = ""
    /\ device = [noise |-> 0]
    /\ hist = <<>>
    /\ lock = ""
    /\ tx = [t \in Writers |-> "idle"]
    /\ stream = <<>>
    /\ ppc = "new"
    /\ pwake = 0
    /\ read_event = FALSE
    /\ keep_alive_event = FALSE
    /\ disconnect_result = "none"
    /\ abandoned = {}
    /\ inbound = <<>>
    /\ rbuf = ""
    /\ rprev = 0
    /\ rread = NoRead
    /\ delivered = <<>>
    /\ written = <<>>
    /\ decode_errors = 0
    /\ nreads = 0
    /\ made = NoCommand
    /\ read_error_logged = FALSE

(* ---------------------------------------------------------------------- *)
(* ActionHandle                                                            *)
(* ---------------------------------------------------------------------- *)
\* ActionHandle.__init__ followed by the two add_callback calls of a dispatch:
\* add_callback appends done_cb unless it is None, then _set_action_done
NewHandle(n, timeout, cb) ==
    [id |-> generate_id(n),
     callbacks |-> (IF cb THEN <<"done_cb">> ELSE <<>>)
                   \o <<"_set_action_done">>,
     timeout |-> timeout,
     event |-> FALSE,
     returned |-> FALSE]

\* threading.Timer(self.timeout, self.done), created only with a timeout
NewTimer(timeout) ==
    [state |-> IF timeout # None THEN "created" ELSE "none",
     deadline |-> 0, i |-> 0]

\* an event that a second set() clears again
EventToggle(e) == ~e

\* threading.Event.set
EventSet(e) == TRUE

\* Robot._set_action_done, the callback every dispatch registers
SetActionDone ==
    /\ last_cmd_time' = now
    /\ is_action_active' = FALSE

\* One step of ActionHandle.done on handle h by a thread that is at position
\* i of it: position 0 sets the event, position k calls the k-th callback.
DoneStep(h, i) ==
    IF i = 0
    THEN /\ handles' = [handles EXCEPT ![h].event = EventSet(@)]
         /\ UNCHANGED <<busyVars, hist>>
    ELSE /\ IF handles[h].callbacks[i] = "done_cb"
            THEN /\ hist' = [hist EXCEPT ![h].cb_calls = @ + 1]
                 /\ UNCHANGED busyVars
            ELSE /\ hist' = [hist EXCEPT ![h].idle_calls = @ + 1]
                 /\ SetActionDone
         /\ UNCHANGED handles

\* whether position i is the last one of done on handle h
DoneEnds(h, i) == i >= Len(handles[h].callbacks)

\* a wait that does not look at the event
WaitReturnsAlways(h) == TRUE

\* ActionHandle.wait returns: threading.Event.wait
WaitReturns(h) == handles[h].event

(* ---------------------------------------------------------------------- *)
(* The dispatcher: Robot.say, animate, do and walk_*                       *)
(* ---------------------------------------------------------------------- *)
\* the step of a dispatch that follows step s, "return" after the last one
StepAfter(op, s) ==
    LET steps == DispatchSteps(op)
        k == CHOOSE j \in 1 .. Len(steps) : steps[j] = s
    IN  IF k = Len(steps) THEN "return" ELSE steps[k + 1]

\* the command fragment the builder of a dispatch builds
Fragment(op, input) ==
    CASE op = "say" -> input
      [] op = "animate" -> AnimationBuild(input)
      [] op = "do" -> input
      [] OTHER -> WalkBuild(WalkDirection(op), input)

\* builder.duration() for the walks, None for the other dispatches
Timeout(op, input) ==
    IF op \in WalkOps THEN <<WalkDuration(WalkDirection(op), input)>> ELSE None

Inputs(op) ==
    CASE op = "say" -> SayTexts
      [] op = "animate" -> Animations
      [] op = "do" -> DoCommands
      [] OTHER -> StepsIn

\* The start of say, animate, do and walk_*: _set_action_start, the builder,
\* the new ActionHandle and its callbacks.  The handle is known to no other
\* thread until a later step registers or returns it.
Enter(c, op, input, block, cb, in_connect) ==
    LET n == Len(handles) + 1
    IN  /\ is_action_active' = TRUE
        /\ handles' = Append(handles, NewHandle(n, Timeout(op, input), cb))
        /\ timers' = Append(timers, NewTimer(Timeout(op, input)))
        /\ hist' = Append(hist, NoHist)
        /\ pc' = [pc EXCEPT ![c] = DispatchSteps(op)[1]]
        /\ call' = [call EXCEPT ![c] =
                       [NoCall EXCEPT !.op = op,
                                      !.fragment = Fragment(op, input),
                                      !.block = block, !.h = n,
                                      !.in_connect = in_connect]]

\* the user thread calls say, animate, do or walk_*
Dispatch(c, op, input, block, cb) ==
    /\ c = "user"
    /\ pc[c] = "idle"
    /\ connect_result = "true"
    /\ input \in Inputs(op)
    /\ Enter(c, op, input, block, cb, FALSE)
    /\ UNCHANGED <<now, robotVars, action_handles, last_cmd_time,
                   transportVars, connect_result, readerVars, keepAliveVars,
                   wire, device>>
    /\ UNCHANGED extVars

\* "return handle"; inside Robot.connect the handle is dropped and connect
\* goes on
Return(c) ==
    IF call[c].in_connect
    THEN /\ pc' = [pc EXCEPT ![c] = "run"]
         /\ call' = [call EXCEPT ![c] = [NoCall EXCEPT !.in_connect = TRUE]]
         /\ UNCHANGED handles
    ELSE /\ pc' = [pc EXCEPT ![c] = "idle"]
         /\ call' = [call EXCEPT ![c] = NoCall]
         /\ handles' = [handles EXCEPT ![call[c].h].returned = TRUE]

\* the caller goes from step s of its dispatch to the next one; without
\* block there is no wait and the dispatch returns
Proceed(c, s) ==
    LET nxt == StepAfter(call[c].op, s)
    IN  IF nxt = "return" \/ (nxt = "wait" /\ ~call[c].block)
        THEN Return(c)
        ELSE /\ pc' = [pc EXCEPT ![c] = nxt]
             /\ UNCHANGED <<call, handles>>

\* a registry that holds the newest entry only
RegistryOfOne(id, h) == [x \in {id} |-> <<0, h>>]

\* "self._action_handles[handle.id] = (0, handle)"
RegistryWith(id, h) ==
    [x \in DOMAIN action_handles \cup {id} |->
        IF x = id THEN <<0, h>> ELSE action_handles[x]]

\* Robot._add_action_handle
AddActionHandle(c) ==
    /\ pc[c] = "register"
    /\ LET h == call[c].h
           id == handles[h].id
       IN  action_handles' = RegistryWith(id, h)
    /\ Proceed(c, "register")
    /\ UNCHANGED <<now, robotVars, busyVars, transportVars, timers,
                   connect_result, readerVars, keepAliveVars, wire, device,
                   hist>>
    /\ UNCHANGED extVars

\* the text a dispatch hands to activity_cmd
CommandText(op, fragment, id) ==
    IF op \in TriggerOps THEN TriggerCommand(op, fragment, id) ELSE fragment

\* the position of the last "=" of a text at or before position k, else 0
RECURSIVE LastEq(_, _)
LastEq(s, k) ==
    IF k = 0 THEN 0
    ELSE IF SubSeq(s, k, k) = "=" THEN k ELSE LastEq(s, k - 1)

\* The id the device finds in a "<TE=id>" directive at the end of the output
\* of an activity command, None when the output does not end in one.
TriggerIdOf(cmd) ==
    LET out == SubSeq(cmd, 1, Len(cmd) - 3)
        e == LastEq(out, Len(out))
    IN  IF /\ Len(out) > 0
           /\ SubSeq(out, Len(out), Len(out)) = ">"
           /\ e > 3
           /\ SubSeq(out, e - 3, e) = "<TE="
        THEN <<SubSeq(out, e + 1, Len(out) - 1)>>
        ELSE None

\* TcpTransport.send of the command of a dispatch: a write to a socket that
\* is not connected fails, and the failure is logged and swallowed
SendCommand(c) ==
    /\ pc[c] = "send"
    /\ LET h == call[c].h
           cmd == activity_cmd(CommandText(call[c].op, call[c].fragment,
                                           handles[h].id))
       IN  IF sock = "open"
           THEN /\ wire' = cmd
                /\ hist' = [hist EXCEPT ![h].te = TriggerIdOf(cmd)]
           ELSE UNCHANGED <<wire, hist>>
    /\ Proceed(c, "send")
    /\ UNCHANGED <<now, robotVars, action_handles, busyVars, transportVars,
                   timers, connect_result, readerVars, keepAliveVars, device>>
    /\ UNCHANGED extVars

\* ActionHandle.start_timer
StartTimer(c) ==
    /\ pc[c] = "timer"
    /\ LET h == call[c].h
       IN  timers' = IF handles[h].timeout # None
                     THEN [timers EXCEPT
                              ![h].state = "started",
                              ![h].deadline = now + handles[h].timeout[1]]
                     ELSE timers
    /\ Proceed(c, "timer")
    /\ UNCHANGED <<now, robotVars, action_handles, busyVars, transportVars,
                   connect_result, readerVars, keepAliveVars, wire, device,
                   hist>>
    /\ UNCHANGED extVars

\* "if block: self.wait(handle)" and the return of the dispatch
DispatchWait(c) ==
    /\ pc[c] = "wait"
    /\ WaitReturns(call[c].h)
    /\ Return(c)
    /\ UNCHANGED <<now, robotVars, action_handles, busyVars, transportVars,
                   timers, connect_result, readerVars, keepAliveVars, wire,
                   device, hist>>
    /\ UNCHANGED extVars

(* ---------------------------------------------------------------------- *)
(* The other calls of the holders of handles                               *)
(* ---------------------------------------------------------------------- *)
Returned == {h \in HandleIds : handles[h].returned}

\* the argument lists of Robot.wait: one or two handles the callers hold
WaitArgs ==
    {<<h>> : h \in Returned} \cup {<<g, h>> : g \in Returned, h \in Returned}

\* the user thread enters Robot.wait(*action_handles); ActionHandle.wait
\* called by the holder itself is the case of one handle
RobotWait(c, args) ==
    /\ c = "user"
    /\ pc[c] = "idle"
    /\ args \in WaitArgs
    /\ pc' = [pc EXCEPT ![c] = "rwait"]
    /\ call' = [call EXCEPT ![c] =
                   [NoCall EXCEPT !.op = "wait", !.args = args, !.i = 1]]
    /\ UNCHANGED <<now, robotVars, action_handles, busyVars, transportVars,
                   handles, timers, connect_result, readerVars,
                   keepAliveVars, wire, device, hist>>
    /\ UNCHANGED extVars

\* one round of "for handle in action_handles: handle.wait()", or the return
RobotWaitStep(c) ==
    /\ pc[c] = "rwait"
    /\ IF call[c].i > Len(call[c].args)
       THEN /\ pc' = [pc EXCEPT ![c] = "idle"]
            /\ call' = [call EXCEPT ![c] = NoCall]
       ELSE /\ WaitReturns(call[c].args[call[c].i])
            /\ call' = [call EXCEPT ![c].i = @ + 1]
            /\ UNCHANGED pc
    /\ UNCHANGED <<now, robotVars, action_handles, busyVars, transportVars,
                   handles, timers, connect_result, readerVars,
                   keepAliveVars, wire, device, hist>>
    /\ UNCHANGED extVars

DirectDoneCalls ==
    Cardinality({h \in HandleIds : hist[h].direct_done > 0})

\* the holder of a handle calls ActionHandle.done itself
HolderDone(c, h) ==
    /\ c = "user"
    /\ pc[c] = "idle"
    /\ h \in Returned
    /\ hist[h].direct_done = 0
    /\ DirectDoneCalls < MaxDirect
    /\ pc' = [pc EXCEPT ![c] = "done"]
    /\ call' = [call EXCEPT ![c] = [NoCall EXCEPT !.op = "done", !.h = h]]
    /\ hist' = [hist EXCEPT ![h].direct_done = @ + 1]
    /\ UNCHANGED <<now, robotVars, action_handles, busyVars, transportVars,
                   handles, timers, connect_result, readerVars,
                   keepAliveVars, wire, device>>
    /\ UNCHANGED extVars

\* one step of the done() a holder called
HolderDoneStep(c) ==
    /\ pc[c] = "done"
    /\ DoneStep(call[c].h, call[c].i)
    /\ IF DoneEnds(call[c].h, call[c].i)
       THEN /\ pc' = [pc EXCEPT ![c] = "idle"]
            /\ call' = [call EXCEPT ![c] = NoCall]
       ELSE /\ call' = [call EXCEPT ![c].i = @ + 1]
            /\ UNCHANGED pc
    /\ UNCHANGED <<now, robotVars, action_handles, transportVars, timers,
                   connect_result, readerVars, keepAliveVars, wire, device>>
    /\ UNCHANGED extVars

(* ---------------------------------------------------------------------- *)
(* Robot.connect                                                           *)
(* ---------------------------------------------------------------------- *)
\* a connect that goes on whatever TcpTransport.connect returned
ConnectProceedsAlways(connected) == TRUE

\* "if self.is_connected:" of Robot.connect
ConnectProceeds(connected) == connected

\* Robot.connect up to the first steps of animate: TcpTransport.connect opens
\* the socket, sends the initial command and starts the reader task, or
\* fails; after a success connect calls animate(Animation.eye_lid_open)
Connect(c, ok) ==
    /\ c = "main"
    /\ pc[c] = "idle"
    /\ connect_result = "none"
    /\ sock = "new"
    /\ is_connected' = ok
    /\ IF ok
       THEN /\ sock' = "open"
            /\ wire' = activity_cmd(" ")
            /\ is_read_thread_running' = TRUE
            /\ rpc' = "recv"
       ELSE UNCHANGED <<sock, wire, is_read_thread_running, rpc>>
    /\ IF ConnectProceeds(ok)
       THEN /\ Enter(c, "animate", "eye_lid_open", TRUE, FALSE, TRUE)
            /\ UNCHANGED connect_result
       ELSE /\ connect_result' = "false"
            /\ UNCHANGED <<pc, call, is_action_active, handles, timers,
                           hist>>
    /\ UNCHANGED <<now, version, voltage, is_running, action_handles,
                   last_cmd_time, rcur, keepAliveVars, device>>
    /\ UNCHANGED extVars

\* "self._is_running = True" and the start of the telemetry poll task
ConnectRun(c) ==
    /\ pc[c] = "run"
    /\ is_running' = TRUE
    /\ pc' = [pc EXCEPT ![c] = "alive"]
    /\ UNCHANGED <<now, version, voltage, is_connected, action_handles,
                   busyVars, transportVars, handles, timers, call,
                   connect_result, readerVars, keepAliveVars, wire, device,
                   hist>>
    /\ UNCHANGED extVars

\* "time.sleep(1)", "self._last_cmd_time = time.time()", the start of the
\* keep-alive task, "time.sleep(2)" and the return of connect.  The reader
\* task is runnable during the sleeps: it has left the done() it was in
\* when connect woke up.
ConnectAlive(c) ==
    /\ pc[c] = "alive"
    /\ rpc # "done"
    /\ last_cmd_time' = now
    /\ kpc' = "loop"
    /\ pc' = [pc EXCEPT ![c] = "idle"]
    /\ call' = [call EXCEPT ![c] = NoCall]
    /\ connect_result' = "true"
    /\ UNCHANGED <<now, robotVars, action_handles, is_action_active,
                   transportVars, handles, timers, readerVars, klocal, wire,
                   device, hist>>
    /\ UNCHANGED extVars

(* ---------------------------------------------------------------------- *)
(* The device and the reader task                                          *)
(* ---------------------------------------------------------------------- *)
RECURSIVE ParseInt(_)
\* float() of a string of decimal digits
ParseInt(s) ==
    IF s = "" THEN 0
    ELSE LET d == CHOOSE x \in 0 .. 9 : ToString(x) = SubSeq(s, Len(s), Len(s))
         IN  10 * ParseInt(SubSeq(s, 1, Len(s) - 1)) + d

\* an inbound envelope: the device.version field and the trigger field, each
\* None when the JSON object does not have it
Envelope(dev, trig) == [device |-> dev, trigger |-> trig]

\* the envelopes the device emits on its own: telemetry, and triggers that
\* are not the echo of a request
Telemetry == {Envelope(<<"1.0">>, None), Envelope(None, <<"voltage.47">>)}
StrayTriggers ==
    {Envelope(None, <<"cb.00000000000000000000ff">>),
     Envelope(None, <<"tap">>)}
NoiseEnvelopes == Telemetry \cup StrayTriggers

\* the handles for which the device has been asked for a trigger and has
\* not yet sent all the triggers of the request
Echoable ==
    {h \in HandleIds :
        hist[h].te # None /\ hist[h].trig < TriggersPerRequest}

\* the handles whose trigger the device has sent in full and may repeat
Repeatable ==
    {h \in HandleIds :
        hist[h].te # None /\ hist[h].trig >= TriggersPerRequest}

\* the envelope with the trigger of handle h
Echo(h) == Envelope(None, hist[h].te)

\* a state update that takes every version the device reports
UpdateVersionAlways(env) ==
    IF env.device # None THEN env.device[1] ELSE version

\* Robot._update_state, the "device" part ("self.version is ''" is true of the
\* empty string only, whether the interpreter compares identity or value)
UpdateVersion(env) ==
    IF env.device # None /\ version = "" THEN env.device[1] ELSE version

\* a voltage in whole volts
VoltageOfWhole(trigger) ==
    LET n == ParseInt(SubSeq(trigger, Len("voltage.") + 1, Len(trigger)))
    IN  <<n \div 10, 0>>

\* float(trigger.replace("voltage.", "")) / 10. as units and tenths
VoltageOf(trigger) ==
    LET n == ParseInt(SubSeq(trigger, Len("voltage.") + 1, Len(trigger)))
    IN  <<n \div 10, n % 10>>

\* the handles whose id is the given one
Matching(id) == {h \in HandleIds : handles[h].id = id}

\* a registry that completes a handle on the first trigger
LastOccurrenceFirst(count) == count + 1 > 0

\* whether Robot._set_action_handle_done finds the entry on its last trigger
LastOccurrence(count) == count + 1 > 1

\* a registry that starts to count the triggers of an id it does not know
RegistryAfterInsert(action_id) ==
    IF action_id \in DOMAIN action_handles
    THEN IF LastOccurrence(action_handles[action_id][1])
         THEN [x \in DOMAIN action_handles \ {action_id} |-> action_handles[x]]
         ELSE [action_handles EXCEPT ![action_id][1] = @ + 1]
    ELSE [x \in DOMAIN action_handles \cup {action_id} |->
             IF x = action_id THEN <<1, 0>> ELSE action_handles[x]]

\* the registry after Robot._set_action_handle_done(action_id)
RegistryAfter(action_id) ==
    IF action_id \in DOMAIN action_handles
    THEN IF LastOccurrence(action_handles[action_id][1])
         THEN [x \in DOMAIN action_handles \ {action_id} |-> action_handles[x]]
         ELSE [action_handles EXCEPT ![action_id][1] = @ + 1]
    ELSE action_handles

\* a registry that removes the entry and completes nothing
HandleToFinishNone(action_id) == 0

\* handle_to_finish of Robot._set_action_handle_done(action_id), 0 for None
HandleToFinish(action_id) ==
    IF /\ action_id \in DOMAIN action_handles
       /\ LastOccurrence(action_handles[action_id][1])
    THEN action_handles[action_id][2]
    ELSE 0

\* Robot._update_state, the "trigger" part, up to the call of done()
UpdateTrigger(t) ==
    IF StartsWith(t, "voltage.")
    THEN /\ voltage' = VoltageOf(t)
         /\ UNCHANGED <<action_handles, hist, readerVars>>
    ELSE IF StartsWith(t, "cb.")
    THEN /\ action_handles' = RegistryAfter(t)
         /\ LET f == HandleToFinish(t)
            IN  /\ hist' = [h \in HandleIds |->
                             [hist[h] EXCEPT
                               !.trig = IF h \in Matching(t)
                                        THEN @ + 1 ELSE @,
                               !.reg_done = IF h = f THEN @ + 1 ELSE @]]
                /\ IF f # 0
                   THEN /\ rpc' = "done"
                        /\ rcur' = [NoReader EXCEPT !.h = f]
                   ELSE UNCHANGED readerVars
         /\ UNCHANGED voltage
    ELSE UNCHANGED <<voltage, action_handles, hist, readerVars>>

\* TcpTransport._read_thread_func reads one envelope and hands it to
\* Robot._data_received_cb, which calls Robot._update_state
ReaderRecv(env) ==
    /\ rpc = "recv"
    /\ is_read_thread_running
    /\ sock = "open"
    /\ \/ /\ env \in NoiseEnvelopes \cup {Echo(h) : h \in Repeatable}
          /\ device.noise < MaxNoise
          /\ device' = [device EXCEPT !.noise = @ + 1]
       \/ /\ \E h \in Echoable : env = Echo(h)
          /\ UNCHANGED device
    /\ version' = UpdateVersion(env)
    /\ IF env.trigger # None
       THEN UpdateTrigger(env.trigger[1])
       ELSE UNCHANGED <<voltage, action_handles, hist, readerVars>>
    /\ UNCHANGED <<now, is_connected, is_running, busyVars, transportVars,
                   handles, timers, callerVars, keepAliveVars, wire>>
    /\ UNCHANGED extVars

\* one step of the handle_to_finish.done() of the reader task
ReaderDoneStep ==
    /\ rpc = "done"
    /\ DoneStep(rcur.h, rcur.i)
    /\ IF DoneEnds(rcur.h, rcur.i)
       THEN /\ rpc' = "recv"
            /\ rcur' = NoReader
       ELSE /\ rcur' = [rcur EXCEPT !.i = @ + 1]
            /\ UNCHANGED rpc
    /\ UNCHANGED <<now, robotVars, action_handles, transportVars, timers,
                   callerVars, keepAliveVars, wire, device>>
    /\ UNCHANGED extVars

(* ---------------------------------------------------------------------- *)
(* The timer task of a handle                                              *)
(* ---------------------------------------------------------------------- *)
\* threading.Timer calls done() once the interval has passed
TimerFire(h) ==
    /\ h \in HandleIds
    /\ timers[h].state = "started"
    /\ now >= timers[h].deadline
    /\ timers' = [timers EXCEPT ![h].state = "running"]
    /\ hist' = [hist EXCEPT ![h].timer_done = @ + 1]
    /\ handles' = [handles EXCEPT ![h].event = EventSet(@)]
    /\ UNCHANGED <<now, robotVars, action_handles, busyVars, transportVars,
                   callerVars, readerVars, keepAliveVars, wire, device>>
    /\ UNCHANGED extVars

\* one callback of the done() of the timer task
TimerDoneStep(h) ==
    /\ h \in HandleIds
    /\ timers[h].state = "running"
    /\ DoneStep(h, timers[h].i + 1)
    /\ timers' = IF DoneEnds(h, timers[h].i + 1)
                 THEN [timers EXCEPT ![h].state = "finished", ![h].i = 0]
                 ELSE [timers EXCEPT ![h].i = @ + 1]
    /\ UNCHANGED <<now, robotVars, action_handles, transportVars, callerVars,
                   readerVars, keepAliveVars, wire, device>>
    /\ UNCHANGED extVars

(* ---------------------------------------------------------------------- *)
(* The keep-alive task: Robot._keep_alive                                  *)
(* ---------------------------------------------------------------------- *)
\* "while self._is_running" and "secs_since_last_cmd = time.time() - ..."
KeepAliveLoop ==
    /\ kpc = "loop"
    /\ IF is_running
       THEN /\ kpc' = "check"
            /\ klocal' = [klocal EXCEPT !.secs = now - last_cmd_time]
       ELSE /\ kpc' = "exit"
            /\ klocal' = NoKeepAlive
    /\ UNCHANGED <<now, robotVars, action_handles, busyVars, transportVars,
                   handles, timers, callerVars, readerVars, wire, device,
                   hist>>
    /\ UNCHANGED extVars

\* the condition under which a keep-alive tick sends
KeepAliveDue(active, secs) == ~active /\ secs > KeepAliveSecs

\* "if not self._is_action_active and secs_since_last_cmd > ..."
KeepAliveCheck ==
    /\ kpc = "check"
    /\ IF KeepAliveDue(is_action_active, klocal.secs)
       THEN /\ kpc' = "send"
            /\ klocal' = NoKeepAlive
       ELSE /\ kpc' = "sleep"
            /\ klocal' = [NoKeepAlive EXCEPT !.wake = now + KeepAliveSecs]
    /\ UNCHANGED <<now, robotVars, action_handles, busyVars, transportVars,
                   handles, timers, callerVars, readerVars, wire, device,
                   hist>>
    /\ UNCHANGED extVars

\* self._transport.send(activity_cmd(" "))
KeepAliveSend ==
    /\ kpc = "send"
    /\ wire' = IF sock = "open" THEN activity_cmd(" ") ELSE wire
    /\ kpc' = "stamp"
    /\ UNCHANGED <<now, robotVars, action_handles, busyVars, transportVars,
                   handles, timers, callerVars, readerVars, klocal, device,
                   hist>>
    /\ UNCHANGED extVars

\* "self._last_cmd_time = time.time()" and the start of the wait
KeepAliveStamp ==
    /\ kpc = "stamp"
    /\ last_cmd_time' = now
    /\ kpc' = "sleep"
    /\ klocal' = [NoKeepAlive EXCEPT !.wake = now + KeepAliveSecs]
    /\ UNCHANGED <<now, robotVars, action_handles, is_action_active,
                   transportVars, handles, timers, callerVars, readerVars,
                   wire, device, hist>>
    /\ UNCHANGED extVars

\* self._keep_alive_event.wait(timeout=self._keep_alive_secs) times out
KeepAliveWake ==
    /\ kpc = "sleep"
    /\ now >= klocal.wake
    /\ kpc' = "loop"
    /\ klocal' = NoKeepAlive
    /\ UNCHANGED <<now, robotVars, action_handles, busyVars, transportVars,
                   handles, timers, callerVars, readerVars, wire, device,
                   hist>>
    /\ UNCHANGED extVars

(* ---------------------------------------------------------------------- *)
(* Time                                                                    *)
(* ---------------------------------------------------------------------- *)
Tick ==
    /\ now + TickLen <= MaxTime
    /\ now' = now + TickLen
    /\ UNCHANGED <<robotVars, action_handles, busyVars, transportVars,
                   handles, timers, callerVars, readerVars, keepAliveVars,
                   wire, device, hist>>
    /\ UNCHANGED extVars

(* ---------------------------------------------------------------------- *)
(* TcpTransport.send, step by step                                         *)
(* ---------------------------------------------------------------------- *)
\* the sends a thread has completed
Sent(t) ==
    Cardinality({i \in 1 .. Len(stream) :
                    stream[i] = [by |-> t, part |-> "tail"]})

\* a transport whose send does not take the lock
LockFreeAlways == TRUE

\* "with self._lock" can be entered
LockFree == lock = ""

\* a thread calls TcpTransport.send and reaches "with self._lock"
SendCall(t) ==
    /\ tx[t] = "idle"
    /\ Sent(t) < MaxSends
    /\ tx' = [tx EXCEPT ![t] = "lock"]
    /\ UNCHANGED <<coreVars, lock, stream, closeVars, decodeVars,
                   made>>

\* "with self._lock": the thread takes the lock
SendAcquire(t) ==
    /\ tx[t] = "lock"
    /\ LockFree
    /\ lock' = t
    /\ tx' = [tx EXCEPT ![t] = "head"]
    /\ UNCHANGED <<coreVars, stream, closeVars, decodeVars,
                   made>>

\* self._sock.sendall writes the first bytes of the message
SendHead(t) ==
    /\ tx[t] = "head"
    /\ stream' = Append(stream, [by |-> t, part |-> "head"])
    /\ tx' = [tx EXCEPT ![t] = "tail"]
    /\ UNCHANGED <<coreVars, lock, closeVars, decodeVars,
                   made>>

\* self._sock.sendall writes the rest of the message
SendTail(t) ==
    /\ tx[t] = "tail"
    /\ stream' = Append(stream, [by |-> t, part |-> "tail"])
    /\ tx' = [tx EXCEPT ![t] = "unlock"]
    /\ UNCHANGED <<coreVars, lock, closeVars, decodeVars,
                   made>>

\* a send that lets the error of a failed write reach its caller
WriteErrorRaised == "raised"

\* where a thread is after self._sock.sendall has raised socket.error: in the
\* except clause of TcpTransport.send, still inside "with self._lock"
WriteErrorCaught == "caught"

\* self._sock.sendall raises socket.error before it has written anything
SendFail(t) ==
    /\ tx[t] = "head"
    /\ tx' = [tx EXCEPT ![t] = WriteErrorCaught]
    /\ UNCHANGED <<coreVars, lock, stream, closeVars, decodeVars,
                   made>>

\* "except socket.error as e": the error is logged and nothing is raised
SendLogError(t) ==
    /\ tx[t] = "caught"
    /\ tx' = [tx EXCEPT ![t] = "unlock"]
    /\ UNCHANGED <<coreVars, lock, stream, closeVars, decodeVars,
                   made>>

\* the end of "with self._lock": the lock is released and send returns
SendRelease(t) ==
    /\ tx[t] = "unlock"
    /\ lock' = IF lock = t THEN "" ELSE lock
    /\ tx' = [tx EXCEPT ![t] = "idle"]
    /\ UNCHANGED <<coreVars, stream, closeVars, decodeVars,
                   made>>

(* ---------------------------------------------------------------------- *)
(* The telemetry poll task: Robot._send_read_cmds                          *)
(* ---------------------------------------------------------------------- *)
\* Robot.connect has called self._read_thread.start()
PollStarted == pc["main"] = "alive" \/ connect_result = "true"

\* "while self._is_running"
PollLoop ==
    /\ \/ ppc = "new" /\ PollStarted
       \/ ppc = "loop"
    /\ ppc' = IF is_running THEN "send" ELSE "exit"
    /\ UNCHANGED <<coreVars, decodeVars, made, sendVars,
                   pwake, read_event, keep_alive_event,
                   disconnect_result, abandoned, read_error_logged>>

\* "for cmd in self._read_commands: self._transport.send(cmd)" and the start
\* of the wait
PollSend ==
    /\ ppc = "send"
    /\ wire' = IF sock = "open" THEN voltage_cmd ELSE wire
    /\ ppc' = "sleep"
    /\ pwake' = now + PollSecs
    /\ UNCHANGED <<now, robotVars, action_handles, busyVars, transportVars,
                   handles, timers, callerVars, readerVars, keepAliveVars,
                   device, hist>>
    /\ UNCHANGED <<decodeVars, made, sendVars,
                   read_event, keep_alive_event, disconnect_result,
                   abandoned, read_error_logged>>

\* self._read_event.wait(timeout=secs) returns: the event is set, or the
\* timeout has passed
PollWake ==
    /\ ppc = "sleep"
    /\ read_event \/ now >= pwake
    /\ ppc' = "loop"
    /\ UNCHANGED <<coreVars, decodeVars, made, sendVars,
                   pwake, read_event, keep_alive_event,
                   disconnect_result, abandoned, read_error_logged>>

\* a wait that returns only when its timeout has elapsed
KeepAliveWaitTimesOut == now >= klocal.wake

\* Event.wait returns at once when the event is set, whatever the timeout
KeepAliveWaitReturns == keep_alive_event

\* self._keep_alive_event.wait(timeout=...) returns because the event is set
KeepAliveWakeEvent ==
    /\ kpc = "sleep"
    /\ KeepAliveWaitReturns
    /\ kpc' = "loop"
    /\ klocal' = NoKeepAlive
    /\ UNCHANGED <<now, robotVars, action_handles, busyVars, transportVars,
                   handles, timers, callerVars, readerVars, wire, device,
                   hist>>
    /\ UNCHANGED extVars

(* ---------------------------------------------------------------------- *)
(* The ends of the reader task                                             *)
(* ---------------------------------------------------------------------- *)
\* self._sock.recv raises socket.error while the transport is open: the
\* error is logged, and the loop goes on to its next round
ReaderError ==
    /\ rpc = "recv"
    /\ is_read_thread_running
    /\ sock = "open"
    /\ read_error_logged' = TRUE
    /\ rpc' = "recv"
    /\ UNCHANGED <<now, robotVars, action_handles, busyVars, transportVars,
                   handles, timers, callerVars, rcur, keepAliveVars, wire,
                   device, hist>>
    /\ UNCHANGED <<decodeVars, made, sendVars,
                   ppc, pwake, read_event, keep_alive_event,
                   disconnect_result, abandoned>>

\* "while self._is_read_thread_running" is false, after a round or after the
\* recv on the closed socket has raised: nothing is logged, the task ends
ReaderExit ==
    /\ rpc = "recv"
    /\ ~is_read_thread_running
    /\ rpc' = "exit"
    /\ UNCHANGED <<now, robotVars, action_handles, busyVars, transportVars,
                   handles, timers, callerVars, rcur, keepAliveVars, wire,
                   device, hist>>
    /\ UNCHANGED extVars

(* ---------------------------------------------------------------------- *)
(* Robot.disconnect and TcpTransport.close                                 *)
(* ---------------------------------------------------------------------- *)
\* the main thread calls Robot.disconnect: "self._is_running = False"
Disconnect(c) ==
    /\ c = "main"
    /\ pc[c] = "idle"
    /\ connect_result # "none"
    /\ disconnect_result = "none"
    /\ is_running' = FALSE
    /\ pc' = [pc EXCEPT ![c] = "close"]
    /\ disconnect_result' = "called"
    /\ UNCHANGED <<now, version, voltage, is_connected, action_handles,
                   busyVars, transportVars, handles, timers, call,
                   connect_result, readerVars, keepAliveVars, wire, device,
                   hist>>
    /\ UNCHANGED <<decodeVars, made, sendVars,
                   ppc, pwake, read_event, keep_alive_event,
                   abandoned, read_error_logged>>

\* TcpTransport.close up to the join: the flag is cleared and the socket is
\* closed.  Closing a socket on which another thread is inside recv makes
\* that recv raise on some platforms and leaves it blocked on others.
TransportClose(c, wakes) ==
    /\ pc[c] = "close"
    /\ is_read_thread_running' = FALSE
    /\ sock' = "closed"
    /\ rpc' = IF rpc = "recv" /\ ~wakes THEN "blocked" ELSE rpc
    /\ pc' = [pc EXCEPT ![c] = "join_reader"]
    /\ UNCHANGED <<now, robotVars, action_handles, busyVars, handles, timers,
                   call, connect_result, rcur, keepAliveVars, wire, device,
                   hist>>
    /\ UNCHANGED extVars

\* a close that does not wait for the reader task
ReaderJoinSkipped == TRUE

\* "self._read_thread.join()" of TcpTransport.close returns: there is no
\* reader task, or it has ended
ReaderJoined == rpc \in {"off", "exit", "dead"}

\* the end of TcpTransport.close, and "self._read_event.set()"
JoinReader(c) ==
    /\ pc[c] = "join_reader"
    /\ ReaderJoined
    /\ read_event' = TRUE
    /\ pc' = [pc EXCEPT ![c] = "join_poll"]
    /\ UNCHANGED <<now, robotVars, action_handles, busyVars, transportVars,
                   handles, timers, call, connect_result, readerVars,
                   keepAliveVars, wire, device, hist>>
    /\ UNCHANGED <<decodeVars, made, sendVars,
                   ppc, pwake, keep_alive_event, disconnect_result,
                   abandoned, read_error_logged>>

\* the telemetry poll task is not alive: never started, or ended
PollJoined == ppc = "exit" \/ (ppc = "new" /\ ~PollStarted)

\* "if self._read_thread.is_alive(): self._read_thread.join()" and
\* "self._keep_alive_event.set()"
JoinPoll(c) ==
    /\ pc[c] = "join_poll"
    /\ PollJoined
    /\ keep_alive_event' = TRUE
    /\ pc' = [pc EXCEPT ![c] = "join_keep_alive"]
    /\ UNCHANGED <<now, robotVars, action_handles, busyVars, transportVars,
                   handles, timers, call, connect_result, readerVars,
                   keepAliveVars, wire, device, hist>>
    /\ UNCHANGED <<decodeVars, made, sendVars,
                   ppc, pwake, read_event, disconnect_result,
                   abandoned, read_error_logged>>

\* the keep-alive task is not alive: never started, or ended
KeepAliveJoined == kpc \in {"off", "exit"}

\* "if self._keep_alive_thread.is_alive(): self._keep_alive_thread.join()"
\* and the return of Robot.disconnect
JoinKeepAlive(c) ==
    /\ pc[c] = "join_keep_alive"
    /\ KeepAliveJoined
    /\ pc' = [pc EXCEPT ![c] = "idle"]
    /\ disconnect_result' = "returned"
    /\ abandoned' = {h \in HandleIds : ~handles[h].event}
    /\ UNCHANGED <<now, robotVars, action_handles, busyVars, transportVars,
                   handles, timers, call, connect_result, readerVars,
                   keepAliveVars, wire, device, hist>>
    /\ UNCHANGED <<decodeVars, made, sendVars,
                   ppc, pwake, read_event, keep_alive_event,
                   read_error_logged>>

(* ---------------------------------------------------------------------- *)
(* The inbound stream and Robot._data_received_cb                          *)
(* ---------------------------------------------------------------------- *)
\* str.find: the index of the first occurrence of ch in s, from 0, or -1
Find(s, ch) ==
    LET hits == {i \in 1 .. Len(s) : SubSeq(s, i, i) = ch}
    IN  IF hits = {} THEN -1
        ELSE (CHOOSE i \in hits : \A j \in hits : i <= j) - 1

\* an index of a slice of a string of length n: negative indexes count from
\* the end, and the result is clipped to 0 .. n
SliceIndex(i, n) ==
    LET k == IF i < 0 THEN i + n ELSE i
    IN  IF k < 0 THEN 0 ELSE IF k > n THEN n ELSE k

\* the slice s[a:b]
PySlice(s, a, b) ==
    LET lo == SliceIndex(a, Len(s))
        hi == SliceIndex(b, Len(s))
    IN  IF lo >= hi THEN "" ELSE SubSeq(s, lo + 1, hi)

Digits == {"0", "1", "2", "3", "4", "5", "6", "7", "8", "9"}
IsDigits(s) == Len(s) > 0 /\ \A i \in 1 .. Len(s) : SubSeq(s, i, i) \in Digits

\* int(s) raises ValueError (the strings of this model have no sign, no
\* surrounding white space and no underscore, which int() also accepts)
IntRaises(s) == ~IsDigits(s)

\* buffer_size of TcpTransport.__init__: the longest text of one read
buffer_size == 4096

RECURSIVE IntUpTo(_, _, _)
\* the number a string of digits denotes, or cap when it is larger
IntUpTo(s, acc, cap) ==
    IF s = "" THEN acc
    ELSE LET d == CHOOSE x \in 0 .. 9 : ToString(x) = SubSeq(s, 1, 1)
             v == 10 * acc + d
         IN  IntUpTo(SubSeq(s, 2, Len(s)), IF v > cap THEN cap ELSE v, cap)

\* int(s) as far as the slices of a read can tell: Python integers have no
\* upper limit, and an index past the end of the read is clipped to the end
IntOf(s) == IntUpTo(s, 0, buffer_size + 1)

\* the characters between a prefix and a suffix of s
Middle(s, pre, post) == PySlice(s, Len(pre), Len(s) - Len(post))

\* s is pre, then characters that need no escape in a JSON string, then post
Wraps(s, pre, post) ==
    /\ Len(s) >= Len(pre) + Len(post)
    /\ StartsWith(s, pre)
    /\ SubSeq(s, Len(s) - Len(post) + 1, Len(s)) = post
    /\ \A i \in 1 .. Len(Middle(s, pre, post)) :
           SubSeq(Middle(s, pre, post), i, i) \notin {"\"", "\\"}

\* what json.loads returns: a number, or an object with the value of its
\* "device" and "trigger" members. A member is None when the object does not
\* have it, <<text>> when it has the shape Robot._update_state expects, and
\* <<text, error>> when reading it raises the error.
Loaded(kind, dev, trig) == [kind |-> kind, device |-> dev, trigger |-> trig]

CmdText == <<"{\"cmd\":\"", "\"}">>
TriggerText == <<"{\"trigger\":\"", "\"}">>
DeviceText == <<"{\"device\":{\"version\":\"", "\"}}">>
TriggerNumberText == "{\"trigger\":5}"
DeviceEmptyText == "{\"device\":{}}"

\* the JSON number texts
IsNumberText(s) == IsDigits(s) /\ (Len(s) = 1 \/ SubSeq(s, 1, 1) # "0")

\* json.loads(s), for the texts that reach it in this model
JsonLoads(s) ==
    IF Wraps(s, CmdText[1], CmdText[2])
    THEN Loaded("object", None, None)
    ELSE IF Wraps(s, TriggerText[1], TriggerText[2])
    THEN Loaded("object", None,
                <<Middle(s, TriggerText[1], TriggerText[2])>>)
    ELSE IF Wraps(s, DeviceText[1], DeviceText[2])
    THEN Loaded("object", <<Middle(s, DeviceText[1], DeviceText[2])>>, None)
    ELSE IF s = TriggerNumberText
    THEN Loaded("object", None, <<"5", "AttributeError">>)
    ELSE IF s = DeviceEmptyText
    THEN Loaded("object", <<"", "KeyError">>, None)
    ELSE IF IsNumberText(s)
    THEN Loaded("number", None, None)
    ELSE Loaded("ValueError", None, None)

\* json.loads(s) raises json.JSONDecodeError, a ValueError
JsonLoadsRaises(s) == JsonLoads(s).kind = "ValueError"

\* Robot._update_state(data) raises: '"device" in data' on a number is a
\* TypeError, data["device"]["version"] without the member is a KeyError,
\* trigger.startswith on a number is an AttributeError
UpdateStateRaises(data) ==
    \/ data.kind # "object"
    \/ data.device # None /\ version = "" /\ Len(data.device) > 1
    \/ data.trigger # None /\ Len(data.trigger) > 1

\* an inbound envelope as the device frames it
Framed(body) == json_length(body) \o body

\* an item of the inbound stream: its text, and its body when the text is one
\* whole well-formed envelope
Item(text, body) == [text |-> text, body |-> body]

\* the body of the envelope with trigger t
TriggerBody(t) == TriggerText[1] \o t \o TriggerText[2]

\* the versions the device reports
DeviceVersions == {"", "1.0", "2.0"}

\* the body of the envelope with device version v
VersionBody(v) == DeviceText[1] \o v \o DeviceText[2]

\* the voltages the device reports, in tenths of a volt
VoltageReadings == {0, 47, 100}

\* the body of the envelope with the voltage trigger of reading n
VoltageBody(n) == TriggerBody("voltage." \o ToString(n))

\* the bodies of the triggers the device owes or repeats
EchoBodies == {TriggerBody(hist[h].te[1]) : h \in Echoable \cup Repeatable}

\* the envelopes of a session: the answers to echo and pushping, the
\* version, a voltage, and the trigger of a request
FrameBodies ==
    {"{\"cmd\":\"echo\"}", "{\"cmd\":\"pushping\"}",
     VersionBody("1.0"), VoltageBody(47)}
    \cup EchoBodies

\* the telemetry of a device: versions and voltages, among the triggers
TelemetryBodies ==
    {VersionBody(v) : v \in DeviceVersions}
    \cup {VoltageBody(n) : n \in VoltageReadings}
    \cup EchoBodies

\* the well-formed envelopes the device writes
DeviceBodies == FrameBodies \cup TelemetryBodies

\* reads that are not a sequence of well-formed envelopes: no prefix, a
\* prefix that is not a number, a length shorter than the body, a body that
\* is not JSON, no brace at all, and objects of another shape
MalformedReads ==
    {"{\"cmd\":\"echo\"}", "0000xx{\"cmd\":\"echo\"}",
     "000010{\"cmd\":\"echo\"}", "000012{\"cmd\":echo}", "12", "123",
     Framed(TriggerNumberText), Framed(DeviceEmptyText)}

\* where a read may end inside the first item in flight: inside the length
\* prefix, between prefix and body, inside the body
CutPoints == {3, 6, 10}

RECURSIVE Concat(_)
\* the texts of a sequence of items, one after the other
Concat(items) ==
    IF items = <<>> THEN ""
    ELSE items[1].text \o Concat(SubSeq(items, 2, Len(items)))

\* the device writes one well-formed envelope
DeviceWrite(body) ==
    /\ rpc \in {"recv", "done"}
    /\ sock = "open"
    /\ Len(written) < MaxWrites
    /\ body \in DeviceBodies
    /\ inbound' = Append(inbound, Item(Framed(body), <<body>>))
    /\ written' = Append(written, <<body>>)
    /\ UNCHANGED <<coreVars, sendVars, closeVars, made, rbuf, rprev, rread,
                   delivered, decode_errors, nreads>>

\* the device, or the network, produces bytes that are not an envelope
DeviceWriteMalformed(text) ==
    /\ rpc \in {"recv", "done"}
    /\ sock = "open"
    /\ Len(written) < MaxWrites
    /\ text \in MalformedReads
    /\ inbound' = Append(inbound, Item(text, None))
    /\ written' = Append(written, None)
    /\ UNCHANGED <<coreVars, sendVars, closeVars, made, rbuf, rprev, rread,
                   delivered, decode_errors, nreads>>

\* the while loop of Robot._data_received_cb is running
Decoding == rprev < Len(rbuf)

\* recv returns the first n items in flight; TcpTransport._read_thread_func
\* decodes them and calls Robot._data_received_cb unless the data is empty
ReaderRead(n) ==
    /\ rpc = "recv"
    /\ ~Decoding
    /\ is_read_thread_running
    /\ sock = "open"
    /\ nreads < MaxReads
    /\ n \in 0 .. Len(inbound)
    /\ LET items == SubSeq(inbound, 1, n)
       IN  /\ rbuf' = Concat(items)
           /\ rread' = [well |-> \A i \in 1 .. n : items[i].body # None,
                        bodies |-> [i \in 1 .. n |->
                                      IF items[i].body # None
                                      THEN items[i].body[1] ELSE ""],
                        base |-> Len(delivered)]
    /\ rprev' = 0
    /\ inbound' = SubSeq(inbound, n + 1, Len(inbound))
    /\ nreads' = nreads + 1
    /\ UNCHANGED <<coreVars, sendVars, closeVars, made, delivered, written,
                   decode_errors>>

\* recv returns the first k characters of the first item in flight
ReaderReadPart(k) ==
    /\ rpc = "recv"
    /\ ~Decoding
    /\ is_read_thread_running
    /\ sock = "open"
    /\ nreads < MaxReads
    /\ inbound # <<>>
    /\ k \in CutPoints
    /\ k < Len(inbound[1].text)
    /\ rbuf' = SubSeq(inbound[1].text, 1, k)
    /\ rread' = [well |-> FALSE, bodies |-> <<>>, base |-> Len(delivered)]
    /\ rprev' = 0
    /\ inbound' = [inbound EXCEPT ![1] =
                      Item(SubSeq(inbound[1].text, k + 1,
                                  Len(inbound[1].text)), None)]
    /\ nreads' = nreads + 1
    /\ UNCHANGED <<coreVars, sendVars, closeVars, made, delivered, written,
                   decode_errors>>

\* a decoder that steps one character short of the end of each envelope
EndIndexShort(start_index, sub_msg_len) == start_index + sub_msg_len - 1

\* end_index of Robot._data_received_cb
EndIndex(start_index, sub_msg_len) == start_index + sub_msg_len

\* the except clause of Robot._data_received_cb: the error is logged and the
\* rest of the read is dropped
DecodeError ==
    /\ decode_errors' = decode_errors + 1
    /\ rbuf' = ""
    /\ rprev' = 0
    /\ UNCHANGED <<version, voltage, action_handles, hist, readerVars,
                   delivered>>

\* one turn of the while loop of Robot._data_received_cb
DecodeStep ==
    /\ rpc = "recv"
    /\ Decoding
    /\ LET start_index == rprev + Find(PySlice(rbuf, rprev, Len(rbuf)), "{")
           prefix == PySlice(rbuf, rprev, start_index)
       IN  IF IntRaises(prefix)
           THEN DecodeError
           ELSE LET end_index == EndIndex(start_index, IntOf(prefix))
                    sub_msg == PySlice(rbuf, start_index, end_index)
                    data == JsonLoads(sub_msg)
                IN  IF JsonLoadsRaises(sub_msg)
                    THEN DecodeError
                    ELSE /\ delivered' = Append(delivered, sub_msg)
                         /\ IF UpdateStateRaises(data)
                            THEN /\ rpc' = "dead"
                                 /\ UNCHANGED <<version, voltage,
                                                action_handles, hist, rcur,
                                                rbuf, rprev, decode_errors>>
                            ELSE /\ version' = UpdateVersion(data)
                                 /\ IF data.trigger # None
                                    THEN UpdateTrigger(data.trigger[1])
                                    ELSE UNCHANGED <<voltage, action_handles,
                                                     hist, readerVars>>
                                 /\ rprev' = end_index
                                 /\ UNCHANGED <<rbuf, decode_errors>>
    /\ UNCHANGED <<now, is_connected, is_running, busyVars, transportVars,
                   handles, timers, callerVars, keepAliveVars, wire, device>>
    /\ UNCHANGED <<sendVars, closeVars, made, inbound, rread, written, nreads>>

(* ---------------------------------------------------------------------- *)
(* The length prefix of an outbound command and the bytes sent             *)
(* ---------------------------------------------------------------------- *)
\* the number of bytes str.encode('utf-8') makes of a character, given its
\* code point
Utf8Len(cp) ==
    IF cp < 128 THEN 1
    ELSE IF cp < 2048 THEN 2
    ELSE IF cp < 65536 THEN 3
    ELSE 4

\* the characters of the texts of this model, by code point: "a", e with
\* acute accent, the euro sign, and a character outside the basic plane
TextChars == {97, 233, 8364, 128512}

\* the lengths json_length is called with: the short ones, and the ones on
\* both sides of the limit
BodyLengths ==
    0 .. MaxShortLen \cup (4090 - LimitMargin) .. (4091 + LimitMargin)

\* the lengths of the texts handed to activity_cmd: the short ones, and the
\* ones that bring the body to both sides of the limit
RunLengths ==
    0 .. MaxRun \cup
    {n - Len(ActivityText[1]) - Len(ActivityText[2]) :
        n \in (4090 - LimitMargin) .. (4091 + LimitMargin)}

\* json_length(msg_body) for a body of the given length
JsonLengthCall(length) ==
    /\ length \in BodyLengths
    /\ made' = IF JsonLengthRaises(length)
               THEN [op |-> "json_length", length |-> length, prefix |-> "",
                     bytes |-> 0, raised |-> TRUE]
               ELSE [op |-> "json_length", length |-> length,
                     prefix |-> JsonLengthOf(length), bytes |-> 0,
                     raised |-> FALSE]
    /\ UNCHANGED <<coreVars, sendVars, closeVars, decodeVars>>

\* TcpTransport.send(activity_cmd(cmd)) for a cmd of count times the
\* character ch: the length is counted in characters, the body is written
\* as the bytes of its UTF-8 encoding, and nothing is written when
\* json_length raises
ActivityCmd(ch, count) ==
    /\ ch \in TextChars
    /\ count \in RunLengths
    /\ LET length == Len(ActivityText[1]) + count + Len(ActivityText[2])
           bytes == Len(ActivityText[1]) + count * Utf8Len(ch)
                    + Len(ActivityText[2])
       IN  made' = IF JsonLengthRaises(length)
                   THEN [op |-> "activity_cmd", length |-> length,
                         prefix |-> "", bytes |-> 0, raised |-> TRUE]
                   ELSE [op |-> "activity_cmd", length |-> length,
                         prefix |-> JsonLengthOf(length), bytes |-> bytes,
                         raised |-> FALSE]
    /\ UNCHANGED <<coreVars, sendVars, closeVars, decodeVars>>

(* ---------------------------------------------------------------------- *)
(* WalkCommandBuilder                                                      *)
(* ---------------------------------------------------------------------- *)
\* the four members of WalkDirection
WalkDirections == {"forward", "backward", "left", "right"}

\* the step counts a caller may pass: the valid ones and MaxBeyond on
\* either side of them
WalkStepInputs == (0 - MaxBeyond) .. (11 + MaxBeyond)

\* a constructor that accepts a walk of no steps
WalkRaisesBelow(steps) == ~(0 <= steps /\ steps < 11)

\* "if not (0 < steps < 11): raise ValueError"
WalkRaises(steps) == ~(0 < steps /\ steps < 11)

\* WalkCommandBuilder(direction, steps) and, when the constructor returns,
\* build() on the new builder
WalkCommand(direction, steps) ==
    /\ direction \in WalkDirections
    /\ steps \in WalkStepInputs
    /\ made' = IF WalkRaises(steps)
               THEN [op |-> "walk", direction |-> direction, steps |-> steps,
                     built |-> FALSE, cmd |-> "", raised |-> TRUE]
               ELSE [op |-> "walk", direction |-> direction, steps |-> steps,
                     built |-> TRUE, cmd |-> WalkBuild(direction, steps),
                     raised |-> FALSE]
    /\ UNCHANGED <<coreVars, sendVars, closeVars, decodeVars>>

(* ---------------------------------------------------------------------- *)
(* A completion callback that dispatches                                   *)
(* ---------------------------------------------------------------------- *)
\* the dispatches a caller's done_cb makes with block=True
CallbackOps == {"do", "walk_forward"}

\* ActionHandle.done calls "cb()" on the thread that called done: the reader
\* task reaches the done_cb of handle rcur.h, and the done_cb is a blocking
\* dispatch.  The reader task runs the whole dispatch, _set_action_start, the
\* new handle, its registration or timer and the send, and then stands in
\* "self.wait(handle)" on the new handle.
CallbackDispatch(op, input) ==
    LET n == Len(handles) + 1
        new == NewHandle(n, Timeout(op, input), FALSE)
        cmd == activity_cmd(CommandText(op, Fragment(op, input), new.id))
    IN  /\ rpc = "done"
        /\ rcur.i >= 1
        /\ handles[rcur.h].callbacks[rcur.i] = "done_cb"
        /\ Len(handles) < MaxHandles + 1
        /\ op \in CallbackOps
        /\ input \in Inputs(op)
        /\ is_action_active' = TRUE
        /\ handles' = Append(handles, new)
        /\ timers' = Append(timers,
                            IF new.timeout # None
                            THEN [state |-> "started",
                                  deadline |-> now + new.timeout[1], i |-> 0]
                            ELSE NewTimer(None))
        /\ action_handles' = IF op \in TriggerOps
                             THEN RegistryWith(new.id, n)
                             ELSE action_handles
        /\ wire' = IF sock = "open" THEN cmd ELSE wire
        /\ hist' = Append([hist EXCEPT ![rcur.h].cb_calls = @ + 1],
                          [NoHist EXCEPT
                              !.te = IF sock = "open" THEN TriggerIdOf(cmd)
                                     ELSE None])
        /\ rpc' = "callback_wait"
        /\ rcur' = [rcur EXCEPT !.g = n]
        /\ UNCHANGED <<now, robotVars, last_cmd_time, transportVars,
                       callerVars, keepAliveVars, device>>
        /\ UNCHANGED extVars

\* the wait of the dispatch inside the done_cb returns, the done_cb returns
\* and the reader task goes on with the callbacks of rcur.h
CallbackWaitReturn ==
    /\ rpc = "callback_wait"
    /\ WaitReturns(rcur.g)
    /\ IF DoneEnds(rcur.h, rcur.i)
       THEN rcur' = NoReader
       ELSE rcur' = [rcur EXCEPT !.i = @ + 1, !.g = 0]
    /\ rpc' = IF DoneEnds(rcur.h, rcur.i) THEN "recv" ELSE "done"
    /\ UNCHANGED <<now, robotVars, action_handles, busyVars, transportVars,
                   handles, timers, callerVars, keepAliveVars, wire, device,
                   hist>>
    /\ UNCHANGED extVars

(* ---------------------------------------------------------------------- *)
(* A dispatch that raises ValueError                                       *)
(* ---------------------------------------------------------------------- *)
\* the lengths of the texts of say and do around the limit of json_length
LongTextLengths == (4090 - 2 * LimitMargin) .. (4091 + LimitMargin)

\* whether the dispatch of op raises ValueError for an argument of the given
\* size, the step count of a walk or the length of the text of say or do:
\* the walk builders check the steps, activity_cmd checks the body
DispatchRaisesFor(op, size, id) ==
    IF op \in WalkOps
    THEN WalkRaises(size)
    ELSE JsonLengthRaises(Len(ActivityText[1]) + size
                          + Len(TriggerCommand(op, "", id))
                          + Len(ActivityText[2]))

\* Robot.walk_*, say or do up to the ValueError: every dispatch begins with
\* _set_action_start; a walk raises in its builder, before the handle is
\* created; say and do create the handle and register it, and raise in
\* activity_cmd, before the send
DispatchRaises(c, op, size) ==
    /\ c = "user"
    /\ pc[c] = "idle"
    /\ connect_result = "true"
    /\ op \in WalkOps \cup {"say", "do"}
    /\ size \in IF op \in WalkOps THEN WalkStepInputs ELSE LongTextLengths
    /\ Len(handles) < MaxHandles
    /\ LET n == Len(handles) + 1
           new == NewHandle(n, None, FALSE)
       IN  /\ DispatchRaisesFor(op, size, new.id)
           /\ is_action_active' = TRUE
           /\ IF op \in WalkOps
              THEN UNCHANGED <<handles, timers, hist, action_handles>>
              ELSE /\ handles' = Append(handles, new)
                   /\ timers' = Append(timers, NewTimer(None))
                   /\ hist' = Append(hist, NoHist)
                   /\ action_handles' = RegistryWith(new.id, n)
    /\ UNCHANGED <<now, robotVars, last_cmd_time, transportVars, callerVars,
                   readerVars, keepAliveVars, wire, device>>
    /\ UNCHANGED extVars

(* ---------------------------------------------------------------------- *)
(* The specifications                                                      *)
(* ---------------------------------------------------------------------- *)
Ops == TriggerOps \cup WalkOps

\* the steps of Robot.connect
ConnectSteps ==
    \/ \E c \in Callers, ok \in BOOLEAN : Connect(c, ok)
    \/ \E c \in Callers : ConnectRun(c)
    \/ \E c \in Callers : ConnectAlive(c)

\* the steps inside a dispatch with trigger-driven completion
TriggerDispatchSteps ==
    \/ \E c \in Callers : AddActionHandle(c)
    \/ \E c \in Callers : SendCommand(c)
    \/ \E c \in Callers : DispatchWait(c)

\* the waits of the holder of a handle
WaitSteps ==
    \/ \E c \in Callers : \E args \in WaitArgs : RobotWait(c, args)
    \/ \E c \in Callers : RobotWaitStep(c)

\* the done() calls of the holder of a handle
DoneSteps ==
    \/ \E c \in Callers : \E h \in HandleIds : HolderDone(c, h)
    \/ \E c \in Callers : HolderDoneStep(c)

\* the calls of the holder of a handle
HolderSteps == WaitSteps \/ DoneSteps

\* the reader task, with the envelopes the device may emit
ReaderSteps(noise) ==
    \/ \E env \in noise \cup {Echo(h) : h \in Echoable \cup Repeatable} :
           ReaderRecv(env)
    \/ ReaderDoneStep

TimerSteps ==
    \/ \E c \in Callers : StartTimer(c)
    \/ \E h \in HandleIds : TimerFire(h)
    \/ \E h \in HandleIds : TimerDoneStep(h)

KeepAliveSteps ==
    \/ KeepAliveLoop
    \/ KeepAliveCheck
    \/ KeepAliveSend
    \/ KeepAliveStamp
    \/ KeepAliveWake

\* a dispatch of one of the given operations, while fewer than max handles
\* have been created
DispatchOf(ops, max) ==
    \E c \in Callers, op \in ops, block \in BOOLEAN, cb \in BOOLEAN :
        \E input \in Inputs(op) :
            Len(handles) < max /\ Dispatch(c, op, input, block, cb)

NextReg ==
    \/ ConnectSteps
    \/ DispatchOf(TriggerOps, MaxHandles)
    \/ TriggerDispatchSteps
    \/ HolderSteps
    \/ ReaderSteps(StrayTriggers)

SpecReg == Init /\ [][NextReg]_vars

\* overlapping dispatches and the waits on their handles
NextWait ==
    \/ ConnectSteps
    \/ DispatchOf(TriggerOps, MaxWaited)
    \/ TriggerDispatchSteps
    \/ WaitSteps
    \/ ReaderSteps({})

SpecWait == Init /\ [][NextWait]_vars

\* dispatches of command lists, the waits on their handles and the triggers
NextDeliver ==
    \/ ConnectSteps
    \/ DispatchOf({"do"}, MaxHandles)
    \/ TriggerDispatchSteps
    \/ WaitSteps
    \/ ReaderSteps({})

SpecDeliver == Init /\ [][NextDeliver]_vars

\* the device emits the triggers it owes and the reader task processes them,
\* the reader task goes on with a done() it has begun, and a caller whose
\* wait can return does return
SpecDeliverLive ==
    /\ SpecDeliver
    /\ WF_vars(\E h \in Echoable : ReaderRecv(Echo(h)))
    /\ WF_vars(ReaderDoneStep)
    /\ \A c \in Callers : WF_vars(DispatchWait(c))
    /\ \A c \in Callers : WF_vars(RobotWaitStep(c))

NextWalk ==
    \/ ConnectSteps
    \/ DispatchOf(WalkOps, MaxHandles)
    \/ TriggerDispatchSteps
    \/ HolderSteps
    \/ ReaderSteps(StrayTriggers)
    \/ TimerSteps
    \/ Tick

SpecWalk == Init /\ [][NextWalk]_vars

\* time passes, and the timer task of a handle is scheduled once it is due
SpecWalkLive ==
    /\ SpecWalk
    /\ WF_vars(Tick)
    /\ \A h \in 1 .. MaxHandles : WF_vars(TimerFire(h))

Next ==
    \/ ConnectSteps
    \/ DispatchOf(Ops, MaxHandles)
    \/ TriggerDispatchSteps
    \/ HolderSteps
    \/ ReaderSteps(NoiseEnvelopes)
    \/ TimerSteps
    \/ KeepAliveSteps
    \/ Tick

Spec == Init /\ [][Next]_vars

\* the calls of TcpTransport.send by the threads that write to the socket
NextSend ==
    \/ \E t \in Writers : SendCall(t)
    \/ \E t \in Writers : SendAcquire(t)
    \/ \E t \in Writers : SendHead(t)
    \/ \E t \in Writers : SendTail(t)
    \/ \E t \in Writers : SendFail(t)
    \/ \E t \in Writers : SendLogError(t)
    \/ \E t \in Writers : SendRelease(t)

SpecSend == Init /\ [][NextSend]_vars

\* the telemetry poll task
PollSteps ==
    \/ PollLoop
    \/ PollSend
    \/ PollWake

\* the steps of Robot.disconnect
DisconnectSteps ==
    \/ \E c \in Callers : Disconnect(c)
    \/ \E c \in Callers, wakes \in BOOLEAN : TransportClose(c, wakes)
    \/ \E c \in Callers : JoinReader(c)
    \/ \E c \in Callers : JoinPoll(c)
    \/ \E c \in Callers : JoinKeepAlive(c)

\* connect, actions of both kinds, the tasks, and disconnect
NextClose ==
    \/ ConnectSteps
    \/ DispatchOf({"do", "walk_forward"}, MaxHandles)
    \/ TriggerDispatchSteps
    \/ ReaderSteps(Telemetry)
    \/ ReaderError
    \/ ReaderExit
    \/ TimerSteps
    \/ KeepAliveSteps
    \/ KeepAliveWakeEvent
    \/ PollSteps
    \/ DisconnectSteps
    \/ Tick

SpecClose == Init /\ [][NextClose]_vars

\* connect, trigger-driven actions, the tasks without the passing of time,
\* and disconnect
NextJoin ==
    \/ ConnectSteps
    \/ DispatchOf({"do"}, MaxHandles)
    \/ TriggerDispatchSteps
    \/ ReaderSteps(Telemetry)
    \/ ReaderExit
    \/ KeepAliveLoop
    \/ KeepAliveCheck
    \/ KeepAliveWakeEvent
    \/ PollSteps
    \/ DisconnectSteps

SpecJoin == Init /\ [][NextJoin]_vars

\* the device's writes and the reads of the reader task
DeviceSteps ==
    \/ \E body \in DeviceBodies : DeviceWrite(body)
    \/ \E text \in MalformedReads : DeviceWriteMalformed(text)

DecodeSteps ==
    \/ \E n \in 0 .. MaxWrites : ReaderRead(n)
    \/ \E k \in CutPoints : ReaderReadPart(k)
    \/ DecodeStep
    \/ ReaderDoneStep

\* connect, then the inbound stream cut into reads and decoded
NextDecode ==
    \/ ConnectSteps
    \/ TriggerDispatchSteps
    \/ DeviceSteps
    \/ DecodeSteps

SpecDecode == Init /\ [][NextDecode]_vars

\* connect, then a stream of well-formed envelopes cut into reads and decoded
NextFrames ==
    \/ ConnectSteps
    \/ TriggerDispatchSteps
    \/ \E body \in FrameBodies : DeviceWrite(body)
    \/ DecodeSteps

SpecFrames == Init /\ [][NextFrames]_vars

\* connect, then the telemetry of the device, read in whole envelopes and
\* decoded
NextTelemetry ==
    \/ ConnectSteps
    \/ TriggerDispatchSteps
    \/ \E body \in TelemetryBodies : DeviceWrite(body)
    \/ \E n \in 0 .. MaxWrites : ReaderRead(n)
    \/ DecodeStep
    \/ ReaderDoneStep

SpecTelemetry == Init /\ [][NextTelemetry]_vars

\* the calls of json_length and of activity_cmd
NextEncode ==
    \/ \E length \in BodyLengths : JsonLengthCall(length)
    \/ \E ch \in TextChars, count \in RunLengths : ActivityCmd(ch, count)

SpecEncode == Init /\ [][NextEncode]_vars

\* the constructions of walk commands
NextBuild ==
    \E direction \in WalkDirections, steps \in WalkStepInputs :
        WalkCommand(direction, steps)

SpecBuild == Init /\ [][NextBuild]_vars

\* dispatches, among them the ones that raise, and the keep-alive task
NextRaise ==
    \/ ConnectSteps
    \/ DispatchOf({"do"}, MaxHandles)
    \/ TriggerDispatchSteps
    \/ ReaderSteps({})
    \/ \E c \in Callers, op \in WalkOps \cup {"say", "do"} :
           \E size \in WalkStepInputs \cup LongTextLengths :
               DispatchRaises(c, op, size)
    \/ KeepAliveSteps
    \/ Tick

SpecRaise == Init /\ [][NextRaise]_vars

\* dispatches with a done_cb that dispatches again and waits
NextCallback ==
    \/ ConnectSteps
    \/ DispatchOf({"do"}, MaxHandles)
    \/ TriggerDispatchSteps
    \/ ReaderSteps({})
    \/ \E op \in CallbackOps : \E input \in Inputs(op) :
           CallbackDispatch(op, input)
    \/ CallbackWaitReturn
    \/ \E h \in HandleIds : TimerFire(h)
    \/ \E h \in HandleIds : TimerDoneStep(h)
    \/ Tick

SpecCallback == Init /\ [][NextCallback]_vars

TypeOK ==
    /\ now \in 0 .. MaxTime
    /\ is_action_active \in BOOLEAN
    /\ Len(hist) = Len(handles)
    /\ Len(timers) = Len(handles)

(* ---------------------------------------------------------------------- *)
(* Properties                                                              *)
(* ---------------------------------------------------------------------- *)
Registered(h) == handles[h].id \in DOMAIN action_handles
TriggerTracked == {h \in HandleIds : handles[h].timeout = None}
TimeoutTracked == {h \in HandleIds : handles[h].timeout # None}

\* the reader task is about to set the event of handle h
ReaderCompleting(h) == rpc = "done" /\ rcur.h = h /\ rcur.i = 0

\* C1: for every registered correlation id, after exactly one matching
\* trigger the entry is still in the registry with count 1 and the registry
\* has not called done() (the handle is pending unless its holder completed
\* it); the second matching trigger removes the entry, and the registry calls
\* done() exactly once, which sets the event.
C1_SecondTriggerCompletes ==
    \A h \in TriggerTracked :
        /\ Registered(h) =>
               /\ action_handles[handles[h].id] = <<hist[h].trig, h>>
               /\ hist[h].trig \in {0, 1}
        /\ hist[h].trig = 1 =>
               /\ Registered(h)
               /\ hist[h].reg_done = 0
               /\ hist[h].direct_done = 0 => ~handles[h].event
        /\ hist[h].trig >= 2 =>
               /\ ~Registered(h)
               /\ hist[h].reg_done = 1
               /\ ~ReaderCompleting(h) => handles[h].event

\* a handle the user dispatched has been completed by its second trigger
C1_Witness ==
    \E h \in TriggerTracked :
        /\ h > 1
        /\ hist[h].trig = 2
        /\ hist[h].reg_done = 1
        /\ hist[h].direct_done = 0
        /\ handles[h].event
        /\ ~Registered(h)

\* C2: whatever done() calls are made on a handle (second trigger, timer
\* expiry, direct call by the holder), each registered completion callback
\* runs at most once.
C2_CallbacksAtMostOnce ==
    \A h \in HandleIds : hist[h].cb_calls <= 1 /\ hist[h].idle_calls <= 1

\* an action is in flight: it has been dispatched and done() has not been
\* called on its handle
InFlight == \E h \in HandleIds : ~handles[h].event

\* C3: the keep-alive task never writes its no-op command while a dispatched
\* action is in flight.
C3_NoKeepAliveInFlight ==
    [][KeepAliveSend => ~InFlight]_vars

\* C4: a dispatch sets the busy flag before its command is sent, and the
\* flag goes back to idle, together with the last-command timestamp, only
\* once done() has been called on the handle of every dispatched action.
C4_BusyUntilDone ==
    [][/\ \A c \in Callers :
              pc[c] = "idle" /\ pc'[c] \in {"register", "send"}
                  => is_action_active'
       /\ is_action_active /\ ~is_action_active'
              => /\ last_cmd_time' = now
                 /\ \A h \in HandleIds : handles[h].event]_vars

\* caller c writes the command of its dispatch to the socket
Sends(c) == pc[c] = "send" /\ pc'[c] # "send" /\ sock = "open"

\* C5 as stated: say, animate and do alike send the fragment, one space,
\* "<PA>" and "<TE=id>" with the id of the handle.
C5_PaddedTrigger ==
    [][\A c \in Callers :
          Sends(c) /\ call[c].op \in TriggerOps
              => wire' = activity_cmd(call[c].fragment \o " <PA><TE="
                                      \o handles[call[c].h].id \o ">")]_vars

\* C5 as amended: animate and do send the fragment, one space, "<PA>" and
\* "<TE=id>"; say sends the fragment and "<TE=id>"; id is the id under which
\* the handle of the dispatch is registered.
C5_TriggerRequest ==
    [][\A c \in Callers :
          Sends(c) /\ call[c].op \in TriggerOps
              => LET id == handles[call[c].h].id
                 IN  /\ Registered(call[c].h)
                     /\ action_handles[id][2] = call[c].h
                     /\ call[c].op \in {"animate", "do"}
                            => wire' = activity_cmd(call[c].fragment
                                           \o " <PA><TE=" \o id \o ">")
                     /\ call[c].op = "say"
                            => wire' = activity_cmd(call[c].fragment
                                           \o "<TE=" \o id \o ">")]_vars

\* the command of a do() is on the wire and the device has its id
C5_Witness ==
    \E h \in TriggerTracked, frag \in DoCommands :
        /\ h > 1
        /\ hist[h].te = <<handles[h].id>>
        /\ wire = activity_cmd(frag \o " <PA><TE=" \o handles[h].id \o ">")

\* the clock of the model can reach time d
ClockReaches(d) ==
    \E t \in now .. MaxTime : t >= d /\ (t - now) % TickLen = 0

\* the timer of handle h has been started and its deadline is within the
\* reach of the clock
TimerPending(h) ==
    IF h \in TimeoutTracked
    THEN timers[h].state = "started" /\ ClockReaches(timers[h].deadline)
    ELSE FALSE

IsDone(h) == IF h \in HandleIds THEN handles[h].event ELSE FALSE

\* C6: a handle with a timeout is never in the registry and no trigger counts
\* for it; done() is called on it by its timer, not before the timeout has
\* elapsed since the timer was started; and once the timer is started the
\* handle is eventually done, whatever triggers arrive.
C6_TimeoutCompletes ==
    /\ [](\A h \in TimeoutTracked :
            /\ ~Registered(h)
            /\ hist[h].trig = 0 /\ hist[h].reg_done = 0
            /\ timers[h].state # "created"
                   => timers[h].deadline >= handles[h].timeout[1]
            /\ hist[h].timer_done > 0 => now >= timers[h].deadline
            /\ handles[h].event /\ hist[h].direct_done = 0
                   => hist[h].timer_done = 1)
    /\ \A h \in 1 .. MaxHandles : TimerPending(h) ~> IsDone(h)

\* a walk has been completed by its timer after a stray trigger arrived
C6_Witness ==
    \E h \in TimeoutTracked :
        /\ timers[h].state = "finished"
        /\ hist[h].direct_done = 0
        /\ handles[h].event
        /\ device.noise > 0

\* C7: ActionHandle.wait returns only on a handle that is done, Robot.wait
\* returns only when every handle it was given is done, and a dispatch with
\* block=True returns only when its own handle is done.
C7_WaitUntilDone ==
    [][\A c \in Callers :
          /\ pc[c] = "wait" /\ pc'[c] # "wait" => handles[call[c].h].event
          /\ pc[c] = "rwait" /\ call'[c].i > call[c].i
                 => handles[call[c].args[call[c].i]].event
          /\ pc[c] = "rwait" /\ pc'[c] = "idle"
                 => \A k \in 1 .. Len(call[c].args) :
                        handles[call[c].args[k]].event]_vars

\* Robot.wait is about to return from two different handles
C7_Witness ==
    \E c \in Callers :
        /\ pc[c] = "rwait"
        /\ Len(call[c].args) = 2
        /\ call[c].args[1] # call[c].args[2]
        /\ call[c].i > 2

\* C8: a handle that is done stays done.
C8_DoneIsStable ==
    [][\A h \in HandleIds : handles[h].event => handles'[h].event]_vars

\* done() has been called twice on a handle, and it is done
C8_Witness ==
    \E h \in HandleIds :
        /\ hist[h].reg_done + hist[h].timer_done + hist[h].direct_done >= 2
        /\ handles[h].event

\* the envelopes with a completion trigger whose id is not in the registry
UnknownTriggers ==
    {env \in StrayTriggers \cup {Echo(h) : h \in Echoable \cup Repeatable} :
        /\ StartsWith(env.trigger[1], "cb.")
        /\ env.trigger[1] \notin DOMAIN action_handles}

\* C9: a completion trigger whose id is not in the registry changes nothing:
\* not the registry, the handles, the busy flag, the timestamp or the
\* telemetry; no callback runs, no done() starts, and the reader reads on.
C9_UnknownTriggerIgnored ==
    [][\A env \in UnknownTriggers :
          ReaderRecv(env) =>
              /\ UNCHANGED <<action_handles, handles, timers, busyVars,
                             version, voltage>>
              /\ rpc' = "recv"
              /\ \A h \in HandleIds :
                    /\ hist'[h].reg_done = hist[h].reg_done
                    /\ hist'[h].cb_calls = hist[h].cb_calls
                    /\ hist'[h].idle_calls = hist[h].idle_calls]_vars

\* a third trigger has arrived for a handle its second trigger completed
C9_Witness ==
    \E h \in TriggerTracked :
        hist[h].trig = 3 /\ hist[h].reg_done = 1 /\ ~Registered(h)

\* C10: from before its command is sent until its second matching trigger
\* is processed an id is in the registry, so no trigger for it is processed
\* before it is registered.
C10_RegisteredWhileAwaited ==
    /\ \A c \in Callers :
          pc[c] = "send" /\ call[c].op \in TriggerOps => Registered(call[c].h)
    /\ \A h \in TriggerTracked :
          /\ hist[h].te # None /\ hist[h].trig < 2
                 => Registered(h) /\ action_handles[handles[h].id][2] = h
          /\ hist[h].trig > 0 => hist[h].te # None

\* the first trigger of a dispatched id has been counted in the registry
C10_Witness ==
    \E h \in TriggerTracked :
        /\ h > 1
        /\ hist[h].te # None
        /\ hist[h].trig = 1
        /\ Registered(h)

\* the threads that are inside the socket write
InWrite ==
    {t \in Writers : tx[t] \in {"head", "tail", "caught", "unlock"}}

\* C11: at most one thread is inside the socket write at any time, whichever
\* of the callers' threads, the keep-alive task and the telemetry poll task
\* send, so the bytes of a message are never followed by the bytes of
\* another thread's message before the message is complete.
C11_WritesExclusive ==
    /\ Cardinality(InWrite) <= 1
    /\ \A t \in InWrite : lock = t
    /\ \A i \in 1 .. Len(stream) :
          stream[i].part = "head" /\ i < Len(stream)
              => stream[i + 1] = [by |-> stream[i].by, part |-> "tail"]

\* the keep-alive task waits for the lock while a caller is in its write,
\* after the telemetry poll task has sent a message
C11_Witness ==
    /\ tx["keep_alive"] = "lock"
    /\ tx["user"] = "tail"
    /\ Sent("poll") > 0

\* C12: after Robot.disconnect has returned, the handles that were pending
\* at that moment, trigger-driven and timeout-driven alike, never become
\* done, and none of their completion callbacks runs.
C12_AbandonedStayPending ==
    \A h \in abandoned :
        /\ ~handles[h].event
        /\ hist[h].cb_calls = 0
        /\ hist[h].idle_calls = 0

\* the step of each task that Robot.disconnect waits for
ReaderProgress == ReaderDoneStep \/ ReaderExit
PollProgress == PollSteps
KeepAliveProgress == KeepAliveSteps \/ KeepAliveWakeEvent

\* C13: Robot.disconnect returns: wherever it waits for a task, that task
\* has ended or can take a step towards its end; and when disconnect has
\* returned, the reader task, the telemetry poll task and the keep-alive
\* task have ended, whatever handles are pending.
C13_DisconnectReturns ==
    /\ pc["main"] = "join_reader" => ReaderJoined \/ ENABLED ReaderProgress
    /\ pc["main"] = "join_poll" => PollJoined \/ ENABLED PollProgress
    /\ pc["main"] = "join_keep_alive"
           => KeepAliveJoined \/ ENABLED KeepAliveProgress
    /\ disconnect_result = "returned"
           => ReaderJoined /\ PollJoined /\ KeepAliveJoined

\* TcpTransport.close has returned
CloseReturned ==
    \/ pc["main"] \in {"join_poll", "join_keep_alive"}
    \/ disconnect_result = "returned"

\* C14: TcpTransport.close returns only after the reader task has ended, and
\* after it has returned the reader task delivers nothing: no telemetry
\* update, no trigger counted, no done() started by the registry.
C14_CloseJoinsReader ==
    /\ [](CloseReturned => ReaderJoined)
    /\ [][CloseReturned =>
             /\ UNCHANGED <<version, voltage, readerVars>>
             /\ \A h \in HandleIds :
                   /\ hist'[h].trig = hist[h].trig
                   /\ hist'[h].reg_done = hist[h].reg_done]_vars

\* close has returned, the reader task ran and has ended, and an action it
\* had counted one trigger for is left pending
C14_Witness ==
    /\ CloseReturned
    /\ rpc = "exit"
    /\ \E h \in HandleIds : hist[h].trig = 1 /\ ~handles[h].event

\* C15: when a socket read fails and close() has not been called, the reader
\* task logs the error and ends, without another read; when the read fails
\* because of close(), the task ends and logs nothing.
C15_ReadErrorEndsReader ==
    [][/\ ReaderError => rpc' = "exit" /\ read_error_logged'
       /\ ReaderExit => rpc' = "exit" /\ UNCHANGED read_error_logged]_vars

\* C16: no inbound read, however malformed (bad or missing length prefix,
\* length that does not match the braces, invalid JSON, JSON of another
\* shape than the expected object), ends the reader task: once started, the
\* reader task is always reading, decoding or completing a handle.
C16_MalformedReadAbsorbed == rpc \in {"off", "recv", "done"}

\* the whole inbound stream has been read and decoded
StreamConsumed == rpc = "recv" /\ ~Decoding /\ inbound = <<>>

\* the device has written well-formed envelopes only
StreamWellFormed == \A i \in 1 .. Len(written) : written[i] # None

\* the number of envelopes written with the trigger of handle h
TriggersWritten(h) ==
    Cardinality({i \in 1 .. Len(written) :
                    written[i] = <<TriggerBody(hist[h].te[1])>>})

\* C17: wherever the reads cut a stream of well-formed envelopes (inside a
\* length prefix, between prefix and body, inside a body), every envelope is
\* delivered exactly once, in order, once the bytes after the cut have
\* arrived; and every trigger envelope counts toward its handle.
C17_SplitEnvelopeDelivered ==
    StreamConsumed /\ StreamWellFormed =>
        /\ delivered = [i \in 1 .. Len(written) |-> written[i][1]]
        /\ \A h \in HandleIds :
               hist[h].te # None => hist[h].trig = TriggersWritten(h)

\* what the read in progress has delivered to Robot._update_state so far
Got == SubSeq(delivered, rread.base + 1, Len(delivered))

IsPrefix(a, b) == Len(a) <= Len(b) /\ a = SubSeq(b, 1, Len(a))

\* C18: a read that is the concatenation of n >= 0 well-formed envelopes
\* (six-digit zero-padded length, then a JSON object of that length) delivers
\* the objects of these envelopes to the state update in wire order: while the
\* read is decoded the objects delivered are the first ones of the read, and
\* at the end of the read they are exactly the n objects.
C18_ConcatenationDelivered ==
    rread.well =>
        /\ IsPrefix(Got, rread.bodies)
        /\ ~Decoding => Got = rread.bodies

\* a read of two different envelopes has been decoded to its end
C18_Witness ==
    /\ rread.well
    /\ Len(rread.bodies) = 2
    /\ rread.bodies[1] # rread.bodies[2]
    /\ rbuf # ""
    /\ ~Decoding
    /\ Got = rread.bodies

\* C19: json_length returns the length of the body as a decimal string
\* left-padded with zeros to exactly 6 characters for every length from 0 to
\* 4090, and raises ValueError for every length of 4091 or more; a command
\* whose body is longer is neither constructed nor sent.
C19_LengthPrefixOrError ==
    /\ made.op # "" /\ made.length <= 4090 =>
           /\ ~made.raised
           /\ Len(made.prefix) = 6
           /\ IsDigits(made.prefix)
           /\ ParseInt(made.prefix) = made.length
    /\ made.op # "" /\ made.length >= 4091 =>
           /\ made.raised
           /\ made.prefix = ""
           /\ made.bytes = 0

\* json_length has been called with a body of exactly 4090 characters
C19_Witness ==
    /\ made.op = "json_length"
    /\ made.length = 4090
    /\ made.prefix = "004090"
    /\ ~made.raised

\* C20: for every outbound envelope the 6-digit length prefix is the number
\* of bytes of the body as written to the socket, also when the text of an
\* activity command has characters that encode to more than one byte.
C20_PrefixCountsBytes ==
    made.op = "activity_cmd" /\ ~made.raised =>
        ParseInt(made.prefix) = made.bytes

\* C21: a failed socket write inside TcpTransport.send is swallowed: the
\* thread that called send, a dispatching caller or the keep-alive task, is
\* never left with an exception; it logs the error while it holds the lock,
\* and send can then release the lock and return to it.
C21_WriteFailureSwallowed ==
    \A t \in Writers :
        /\ tx[t] \in {"idle", "lock", "head", "tail", "caught", "unlock"}
        /\ tx[t] = "caught" => lock = t /\ ENABLED SendLogError(t)
        /\ tx[t] = "unlock" => ENABLED SendRelease(t)

\* the write of the keep-alive task has failed while a caller waits for the
\* lock
C21_Witness ==
    /\ tx["keep_alive"] = "caught"
    /\ tx["user"] = "lock"

\* Robot.connect has been called
ConnectCalled == connect_result # "none" \/ pc["main"] # "idle"

\* C22: when the connection attempt fails, TcpTransport.connect returns
\* false and starts no reader task, and Robot.connect returns false without
\* raising, with is_connected false, no animation dispatched (no handle, no
\* command written, busy flag clear) and neither the telemetry poll task nor
\* the keep-alive task started.
C22_FailedConnect ==
    ConnectCalled /\ ~is_connected =>
        /\ connect_result = "false"
        /\ pc["main"] \notin {"register", "send", "wait", "run", "alive"}
        /\ rpc = "off"
        /\ ~is_read_thread_running
        /\ sock # "open"
        /\ handles = <<>>
        /\ wire = ""
        /\ ~is_action_active
        /\ ~is_running
        /\ ppc \in {"new", "exit"} /\ ~PollStarted
        /\ kpc = "off"

\* Robot.connect has returned false
C22_Witness ==
    /\ connect_result = "false"
    /\ pc["main"] = "idle"
    /\ ~is_connected
    /\ disconnect_result = "none"

\* C23: a keep-alive tick sends exactly when, at the tick, the busy flag is
\* false and more than one period has elapsed since the last-command
\* timestamp: then one no-op activity command is written and the timestamp
\* is set to the current time; at a tick where either condition fails
\* nothing is written and the timestamp is left alone.
C23_TickSendsWhenIdle ==
    [][/\ KeepAliveCheck /\ kpc' = "send"
           => ~is_action_active /\ now - last_cmd_time > KeepAliveSecs
       /\ KeepAliveCheck /\ kpc' # "send"
           => /\ is_action_active \/ klocal.secs <= KeepAliveSecs
              /\ UNCHANGED <<wire, last_cmd_time>>
       /\ KeepAliveSend /\ sock = "open" => wire' = activity_cmd(" ")
       /\ KeepAliveStamp => last_cmd_time' = now]_vars

\* the functions of Robot whose accesses to _is_action_active and to
\* _last_cmd_time are inside "with self._is_action_active_lock"
BusyLockSites == {"_set_action_start", "_set_action_done"}

\* a dispatch starts: _set_action_start
ActionStarts == \E c \in Callers : pc[c] = "idle" /\ call'[c].op # ""

\* a done() calls _set_action_done
ActionDoneCalled ==
    \E h \in HandleIds : hist'[h].idle_calls > hist[h].idle_calls

\* C24: every access to the busy flag and to the last-command timestamp, by
\* the dispatcher, by the completion callbacks, by connect and by the
\* keep-alive loop (its reads of the timestamp and of the flag, and its reset
\* of the timestamp), is made while holding the busy/idle mutex.
C24_BusyAccessLocked ==
    [][/\ ActionStarts => "_set_action_start" \in BusyLockSites
       /\ ActionDoneCalled => "_set_action_done" \in BusyLockSites
       /\ (\E c \in Callers : ConnectAlive(c)) => "connect" \in BusyLockSites
       /\ KeepAliveLoop /\ is_running => "_keep_alive" \in BusyLockSites
       /\ KeepAliveCheck => "_keep_alive" \in BusyLockSites
       /\ KeepAliveStamp => "_keep_alive" \in BusyLockSites]_vars

\* C25: the firmware version is set at most once: once it is not empty, no
\* inbound envelope changes it, whatever version the envelope carries.
C25_VersionSetOnce == [][version # "" => version' = version]_vars

\* a second, different version has been delivered after the first one
C25_Witness ==
    /\ version = "1.0"
    /\ ~Decoding
    /\ delivered = <<VersionBody("1.0"), VersionBody("2.0")>>


\* the reader has just delivered the envelope with this body
Delivers(body) ==
    /\ Len(delivered') = Len(delivered) + 1
    /\ delivered'[Len(delivered')] = body

C27_KeepAliveWakesOnSignal ==
    keep_alive_event =>
        /\ ~is_running
        /\ kpc = "sleep" => ENABLED KeepAliveWakeEvent
        /\ kpc = "loop" => ENABLED (KeepAliveLoop /\ kpc' = "exit")
        /\ kpc = "check" => ENABLED KeepAliveCheck

\* the task is inside its wait, the period has not elapsed, and disconnect()
\* has signalled it and waits for it to end
C27_Witness ==
    /\ keep_alive_event
    /\ kpc = "sleep"
    /\ now < klocal.wake
    /\ pc["main"] = "join_keep_alive"


\* C28: every generated id starts with "cb." and has at most 25 characters,
\* and a trigger that echoes the id of a dispatched handle takes the registry
\* branch of the inbound dispatch: it is counted for the handle and the
\* voltage is not touched.
C28_IdRoutedToRegistry ==
    [][/\ \A h \in 1 .. Len(handles') :
             /\ StartsWith(handles'[h].id, "cb.")
             /\ Len(handles'[h].id) <= 25
       /\ \A h \in Echoable \cup Repeatable :
             ReaderRecv(Echo(h)) =>
                 /\ hist[h].te = <<handles[h].id>>
                 /\ hist'[h].trig = hist[h].trig + 1
                 /\ voltage' = voltage]_vars

\* the trigger of a handle the user dispatched has been received once
C28_Witness ==
    \E h \in TriggerTracked :
        /\ h > 1
        /\ Len(handles[h].id) = 25
        /\ hist[h].te = <<handles[h].id>>
        /\ hist[h].trig = 1
        /\ Registered(h)
        /\ rpc = "recv"


\* the text between the comma and the closing bracket of a walk command
WalkCount(cmd) == SubSeq(cmd, Len("<WK=W2,") + 1, Len(cmd) - 1)

\* C29: WalkCommandBuilder raises ValueError, and no builder exists, unless
\* steps is one of 1..10 (0 and 11 are refused); for steps in 1..10 and each
\* of the four directions it builds "<WK=code,n>" with the code of the
\* direction and n = steps, except that one step is written as 0.
C29_WalkCommand ==
    made.op = "walk" =>
        /\ made.raised <=> made.steps \notin 1 .. 10
        /\ made.raised => ~made.built /\ made.cmd = ""
        /\ ~made.raised =>
               /\ made.built
               /\ StartsWith(made.cmd, "<WK=")
               /\ SubSeq(made.cmd, 5, 7) =
                      (CASE made.direction = "forward" -> "W2,"
                         [] made.direction = "backward" -> "WB,"
                         [] made.direction = "left" -> "WL,"
                         [] made.direction = "right" -> "WR,")
               /\ SubSeq(made.cmd, Len(made.cmd), Len(made.cmd)) = ">"
               /\ IsDigits(WalkCount(made.cmd))
               /\ ParseInt(WalkCount(made.cmd)) =
                      (IF made.steps = 1 THEN 0 ELSE made.steps)
               /\ Len(WalkCount(made.cmd)) = Len(ToString(made.steps))

\* a walk of one step to the left has been built
C29_Witness ==
    /\ made.op = "walk"
    /\ made.direction = "left"
    /\ made.steps = 1
    /\ made.cmd = "<WK=WL,0>"


\* C30: whenever a dispatched handle is pending (its command has been
\* written and its event is not set), the busy flag is true.
C30_BusyWhilePending ==
    (\E h \in HandleIds : hist[h].te # None /\ ~handles[h].event)
        => is_action_active


\* the callbacks of handle h have all been called once or more
CallbacksRan(h) ==
    /\ hist[h].idle_calls >= 1
    /\ "done_cb" \in {handles[h].callbacks[i] :
                         i \in 1 .. Len(handles[h].callbacks)}
           => hist[h].cb_calls >= 1

\* C31: when ActionHandle.wait() returns, in a blocking dispatch or in
\* Robot.wait, every callback of the handle, _set_action_done included, has
\* run.
C31_WaitReturnsAfterCallbacks ==
    [][\A c \in Callers :
          /\ DispatchWait(c) => CallbacksRan(call[c].h)
          /\ RobotWaitStep(c) /\ call[c].i <= Len(call[c].args)
                 => CallbacksRan(call[c].args[call[c].i])]_vars


\* the command of handle h has been written, so that the device owes or has
\* emitted its two triggers
Requested(h) == IF h \in HandleIds THEN hist[h].te # None ELSE FALSE

\* caller c is blocked in ActionHandle.wait on handle h
WaitsOn(c, h) ==
    \/ pc[c] = "wait" /\ call[c].h = h
    \/ /\ pc[c] = "rwait"
       /\ call[c].i <= Len(call[c].args)
       /\ call[c].args[call[c].i] = h

\* C32: when the device emits the two triggers of a dispatched id and the
\* reader task is scheduled, the handle eventually is done and every caller
\* that waits on it eventually returns from that wait.
C32_TriggersCompleteHandle ==
    /\ \A h \in 1 .. MaxHandles + 1 : Requested(h) ~> IsDone(h)
    /\ \A c \in Callers : \A h \in 1 .. MaxHandles + 1 :
           WaitsOn(c, h) ~> ~WaitsOn(c, h)

\* the user has waited on a handle of its own until the second trigger
C32_Witness ==
    \E h \in TriggerTracked :
        /\ h > 1
        /\ hist[h].trig = 2
        /\ handles[h].event
        /\ pc["user"] = "rwait"
        /\ call["user"].args = <<h>>
        /\ call["user"].i = 2


\* the registry entry of handle h, None when there is none
EntryOf(h) ==
    IF Registered(h) THEN <<action_handles[handles[h].id]>> ELSE None

\* C33: triggers and registrations of different ids do not interfere: a
\* trigger for one id changes neither the entry nor the completion of any
\* other handle, a registration keeps every other entry and its count, the
\* count of an entry is the number of triggers processed for its id, and the
\* registry calls done() on a handle when its own second trigger is
\* processed and not before.
C33_IdsDoNotInterfere ==
    [][/\ \A h \in Echoable :
             ReaderRecv(Echo(h)) =>
                 /\ hist'[h].trig = hist[h].trig + 1
                 /\ hist'[h].reg_done =
                        (IF hist'[h].trig = 2 THEN 1 ELSE 0)
                 /\ \A g \in HandleIds \ {h} :
                        /\ EntryOf(g)' = EntryOf(g)
                        /\ hist'[g].trig = hist[g].trig
                        /\ hist'[g].reg_done = hist[g].reg_done
       /\ \A c \in Callers :
             AddActionHandle(c) =>
                 /\ EntryOf(call[c].h)' = <<<<0, call[c].h>>>>
                 /\ \A g \in HandleIds \ {call[c].h} :
                        EntryOf(g)' = EntryOf(g)
       /\ \A h \in TriggerTracked :
             /\ Registered(h) => EntryOf(h) = <<<<hist[h].trig, h>>>>
             /\ hist[h].reg_done = (IF hist[h].trig >= 2 THEN 1 ELSE 0)
             /\ handles[h].event => hist[h].trig >= 2]_vars

\* of two overlapping actions the later one has been completed by its two
\* triggers while the earlier one has had one trigger and is registered
C33_Witness ==
    /\ Len(handles) >= 3
    /\ hist[2].trig = 1 /\ Registered(2) /\ ~handles[2].event
    /\ hist[3].trig = 2 /\ ~Registered(3) /\ handles[3].event
    /\ hist[3].reg_done = 1


\* the read in progress is made of well-formed envelopes followed by an item
\* that is not one
MixedRead ==
    /\ ~rread.well
    /\ Len(rread.bodies) >= 2
    /\ rread.bodies[1] # ""

\* the envelopes of the read in progress that come before its first item
\* that is not a well-formed envelope
BeforeMalformed ==
    LET k == CHOOSE i \in 1 .. Len(rread.bodies) :
                 /\ rread.bodies[i] = ""
                 /\ \A j \in 1 .. i - 1 : rread.bodies[j] # ""
    IN  SubSeq(rread.bodies, 1, k - 1)

\* C34: of a read that holds well-formed envelopes followed by a malformed
\* one, the envelopes before the malformed one are applied in order, nothing
\* else of the read is applied, and the reader task goes on.
C34_MalformedTailDropped ==
    MixedRead =>
        /\ rpc \in {"recv", "done"}
        /\ IsPrefix(Got, BeforeMalformed)
        /\ ~Decoding => Got = BeforeMalformed


\* the caller's done_cb of handle h is called in this step
DoneCbCalled(h) == hist'[h].cb_calls > hist[h].cb_calls

\* C35: the callbacks of a handle run in registration order: when done_cb is
\* called, _set_action_done has not yet been called for the handle, and the
\* busy flag is still true.
C35_DoneCbBeforeIdle ==
    [][\A h \in HandleIds :
          DoneCbCalled(h) => hist[h].idle_calls = 0 /\ is_action_active]_vars


\* C36: is_connected is true only after a connect() that succeeded, and it is
\* false once disconnect() has returned.
C36_DisconnectedAfterDisconnect ==
    /\ is_connected => connect_result # "false"
    /\ disconnect_result = "returned" => ~is_connected


\* C37: a dispatch that raises ValueError at construction time sends nothing
\* and leaves the busy flag and the registry as they were before the call.
C37_FailedDispatchNoEffect ==
    [][\A c \in Callers, op \in WalkOps \cup {"say", "do"} :
          \A size \in WalkStepInputs \cup LongTextLengths :
              DispatchRaises(c, op, size) =>
                  UNCHANGED <<wire, is_action_active, action_handles>>]_vars


\* caller c is inside the wait of the animation Robot.connect dispatches
ConnectWaits(c) == pc[c] = "wait" /\ call[c].in_connect

\* C38: Robot.connect returns whatever the device does after the socket is
\* established: while it waits for its initial animation, either the wait
\* can return or the reader task can take a step of the completion without
\* another envelope from the device.
C38_ConnectReturns ==
    \A c \in Callers :
        ConnectWaits(c) =>
            \/ ENABLED DispatchWait(c)
            \/ ENABLED ReaderDoneStep


\* the reader task stands in the wait of a dispatch its done_cb made, and the
\* new command asked the device for triggers
CallbackWaits ==
    IF rpc = "callback_wait" THEN hist[rcur.g].te # None ELSE FALSE

\* C39: a blocking dispatch made from inside a completion callback of a
\* trigger-driven handle returns once the device has emitted the triggers of
\* the new command: while the callback waits, either the wait can return or
\* the reader task can take in the next envelope of the device or go on with
\* a completion.
C39_CallbackWaitReturns ==
    CallbackWaits =>
        \/ WaitReturns(rcur.g)
        \/ ENABLED ReaderRecv(Echo(rcur.g))
        \/ ENABLED ReaderDoneStep


\* C40: while the robot is connected and idle, a keep-alive is sent more than
\* one period and at most two periods after the moment the last-command
\* timestamp was set.
C40_KeepAliveInterval ==
    [][KeepAliveSend /\ is_connected /\ ~is_action_active
          => /\ now - last_cmd_time > KeepAliveSecs
             /\ now - last_cmd_time <= 2 * KeepAliveSecs]_vars

====
